---- MODULE Spec2Model ----
(***************************************************************************)
(* Model of the XML document analysis framework                            *)
(* (xml_files/src/xml_document_analysis_framework.py):                     *)
(*   XMLStreamHandler      - SAX handler accumulating per-tag statistics     *)
(*   DocumentTypeDetector  - pattern based document type detection           *)
(*   XMLChunker            - element based and size based chunking           *)
(*   XMLAgentFramework     - analyze_document / chunk_document /             *)
(*                           generate_llm_prompts                            *)
(* and of can_handle of the specialized handlers (handlers/scap_handler.py, *)
(* additional_xml_handlers.py) with the registry that selects among them.   *)
(*                                                                         *)
(* Strings are sequences of one-character strings, so that slicing, find,   *)
(* rfind, strip and count are computed as Python computes them.  Namespace *)
(* URIs are sequences of URI segments (see IsSubstring).                    *)
(***************************************************************************)
EXTENDS Integers, Sequences, FiniteSets, TLC

VARIABLES
    handler,    \* the XMLStreamHandler object (a record of its fields)
    nev,        \* number of SAX events delivered to the handler so far
    wf,         \* the document side of the events delivered so far: the open
                \* elements, outermost first, each with its qualified name and
                \* the text delivered while it was the innermost open element
    dschema,    \* the schema handed to DocumentTypeDetector.detect_type
    dresult,    \* what detect_type returned ("pending" before the call)
    sel,        \* the handler registry choosing a handler for a document
    arun,       \* the running analyze_document call: position, pending parse
                \* events and outcome
    cdoc,       \* the document file given to chunk_document
    chunker,    \* the XMLChunker object (max_chunk_size, overlap_size)
    crun,       \* the locals of the running chunk_by_elements / chunk_by_size call
    chunks,     \* the list "chunks" of the running call
    cschema,    \* the DocumentSchema object given to chunk_document,
                \* detect_type and generate_llm_prompts
    prompts,    \* the dict generate_llm_prompts returned (<<>> before the call)
    analyzer,   \* the XMLSchemaAnalyzer object, the number of analyze_file calls
                \* made on it, the file and the schema of the last call
    agent       \* the XMLLLMAgent object, its response cache, the provider
                \* requests it sent and the running process_document call

hvars == <<handler, nev, wf>>
dvars == <<dschema, dresult, sel>>
cvars == <<cdoc, chunker, crun, chunks, cschema, prompts>>
avars == <<arun, analyzer, agent>>
vars == <<handler, nev, wf, dschema, dresult, sel, arun, analyzer, agent, cdoc, chunker,
          crun, chunks, cschema, prompts>>

(***************************************************************************)
(* Bounds of the model                                                     *)
(***************************************************************************)
MaxEvents == 5        \* SAX events delivered to one handler
MaxDepth == 2         \* open elements at any time
MaxTextLen == 2       \* characters accumulated in current_text
MaxChunks == 8        \* chunks one chunk_by_size call may append
MaxCalls == 2         \* calls made on one framework or analyzer
MaxDocuments == 1     \* process_document calls on one agent
MaxTasks == 2         \* chunk prompts of one process_document call
LongTextLen == 1001   \* characters of the long text of an element

(***************************************************************************)
(* Generic helpers                                                         *)
(***************************************************************************)
None == "None"

Put(m, k, v) == [x \in (DOMAIN m) \cup {k} |-> IF x = k THEN v ELSE m[x]]

Take(s, n) == IF n >= Len(s) THEN s ELSE SubSeq(s, 1, n)

Max2(a, b) == IF a >= b THEN a ELSE b

Min2(a, b) == IF a <= b THEN a ELSE b

EmptyMap == [x \in {} |-> {}]

\* str.count('\n')
CountNewlines(s) == Cardinality({i \in 1..Len(s) : s[i] = "\n"})

IsSpace(c) == c \in {" ", "\n"}

\* str.strip(): leading and trailing whitespace removed
RECURSIVE LStrip(_)
LStrip(s) == IF s # <<>> /\ IsSpace(Head(s)) THEN LStrip(Tail(s)) ELSE s

RECURSIVE RStrip(_)
RStrip(s) ==
    IF s # <<>> /\ IsSpace(s[Len(s)]) THEN RStrip(SubSeq(s, 1, Len(s) - 1)) ELSE s

Strip(s) == RStrip(LStrip(s))

(***************************************************************************)
(* XMLStreamHandler                                                        *)
(***************************************************************************)
Tags == {"a", "b"}

\* a name as the parser delivers it: "local" is <<local>>, "prefix:local" is
\* <<prefix, local>> (the parts between the colons)
QNames == {<<t>> : t \in Tags} \cup {<<"p", t>> : t \in Tags}

AttrValueLimit == 50

\* the factory of the defaultdict self.elements
NewXMLElement ==
    [tag |-> "", namespace |-> None, count |-> 0, depths |-> {},
     attributes |-> EmptyMap, text_samples |-> <<>>, parent_elements |-> {},
     child_elements |-> {}, paths |-> {}, line_numbers |-> <<>>]

\* self.elements[k] of a defaultdict: the stored entry or a fresh one
ElemOf(elements, k) == IF k \in DOMAIN elements THEN elements[k] ELSE NewXMLElement

\* the keys of a dict in insertion order, after an access that inserts k if
\* it is missing
KeysWith(keys, k) == IF \E i \in 1..Len(keys) : keys[i] = k THEN keys ELSE Append(keys, k)

\* XMLStreamHandler.__init__
HandlerInit(max_samples, max_text_length) ==
    [elements |-> [x \in {} |-> NewXMLElement], elements_keys |-> <<>>,
     namespaces |-> [x \in {} |-> <<>>],
     element_stack |-> <<>>, path_stack |-> <<>>, current_text |-> <<>>,
     max_samples |-> max_samples, max_text_length |-> max_text_length,
     line_number |-> 1]

\* "if ':' in name: name.split(':', 1) else None, name" of startElement
SplitName(name) ==
    IF Len(name) > 1 THEN [prefix |-> name[1], local |-> name[2]]
    ELSE [prefix |-> None, local |-> name[1]]

\* name.split(':', 1)[-1] of endElement and attr_name.split(':')[-1]
LastPart(name) == name[Len(name)]

\* the loop "for attr_name in attrs.getNames()" of startElement; attrs is a
\* function from qualified attribute names to values
RECURSIVE StoreAttributes(_, _, _)
StoreAttributes(attributes, attrs, names) ==
    IF names = {} THEN attributes
    ELSE LET an == CHOOSE x \in names : TRUE
             clean_attr == LastPart(an)
             old == IF clean_attr \in DOMAIN attributes
                    THEN attributes[clean_attr] ELSE {}
         IN StoreAttributes(
                Put(attributes, clean_attr, old \cup {Take(attrs[an], AttrValueLimit)}),
                attrs, names \ {an})

\* the parent-child block with the update of the parent's child_elements lost
LinkParentChild_NoChild(elements, stack, local_name) ==
    IF stack = <<>> THEN elements
    ELSE [elements EXCEPT ![local_name].parent_elements = @ \cup {stack[Len(stack)]}]

\* the parent-child block of startElement; child_elements of the parent and
\* parent_elements of the child are updated together
LinkParentChild(elements, stack, local_name) ==
    IF stack = <<>> THEN elements
    ELSE LET parent_tag == stack[Len(stack)]
             e1 == [elements EXCEPT ![local_name].parent_elements = @ \cup {parent_tag}]
         IN Put(e1, parent_tag,
                [ElemOf(e1, parent_tag) EXCEPT !.child_elements = @ \cup {local_name}])

\* startElement recording the depth after the push on element_stack
startElement_DepthAfterPush(h, name, attrs) ==
    LET sn == SplitName(name)
        local_name == sn.local
        namespace == sn.prefix
        e0 == ElemOf(h.elements, local_name)
        e1 == [e0 EXCEPT !.tag = local_name,
                         !.namespace = namespace,
                         !.count = @ + 1,
                         !.depths = @ \cup {Len(h.element_stack) + 1},
                         !.line_numbers = Append(@, h.line_number),
                         !.paths = @ \cup {h.path_stack \o <<local_name>>}]
        els1 == Put(h.elements, local_name, e1)
        els2 == LinkParentChild(els1, h.element_stack, local_name)
        els3 == [els2 EXCEPT ![local_name].attributes =
                                 StoreAttributes(@, attrs, DOMAIN attrs)]
        keys1 == KeysWith(h.elements_keys, local_name)
        keys2 == IF h.element_stack = <<>> THEN keys1
                 ELSE KeysWith(keys1, h.element_stack[Len(h.element_stack)])
    IN [h EXCEPT !.elements = els3,
                 !.elements_keys = keys2,
                 !.element_stack = Append(@, local_name),
                 !.path_stack = Append(@, local_name),
                 !.current_text = <<>>]

\* XMLStreamHandler.startElement
startElement(h, name, attrs) ==
    LET sn == SplitName(name)
        local_name == sn.local
        namespace == sn.prefix
        e0 == ElemOf(h.elements, local_name)
        e1 == [e0 EXCEPT !.tag = local_name,
                         !.namespace = namespace,
                         !.count = @ + 1,
                         !.depths = @ \cup {Len(h.element_stack)},
                         !.line_numbers = Append(@, h.line_number),
                         !.paths = @ \cup {h.path_stack \o <<local_name>>}]
        els1 == Put(h.elements, local_name, e1)
        els2 == LinkParentChild(els1, h.element_stack, local_name)
        els3 == [els2 EXCEPT ![local_name].attributes =
                                 StoreAttributes(@, attrs, DOMAIN attrs)]
        keys1 == KeysWith(h.elements_keys, local_name)
        keys2 == IF h.element_stack = <<>> THEN keys1
                 ELSE KeysWith(keys1, h.element_stack[Len(h.element_stack)])
    IN [h EXCEPT !.elements = els3,
                 !.elements_keys = keys2,
                 !.element_stack = Append(@, local_name),
                 !.path_stack = Append(@, local_name),
                 !.current_text = <<>>]

\* endElement keeping the most recent text in the last place of a full list
endElement_ReplaceLast(h, name) ==
    LET local_name == LastPart(name)
        stripped == Strip(h.current_text)
        store == /\ stripped # <<>>
                 /\ local_name \in DOMAIN h.elements
        text == Take(stripped, h.max_text_length)
        els == IF store
               THEN [h.elements EXCEPT ![local_name].text_samples =
                        IF Len(@) < h.max_samples THEN Append(@, text)
                        ELSE [@ EXCEPT ![Len(@)] = text]]
               ELSE h.elements
    IN [h EXCEPT !.elements = els,
                 !.element_stack = IF @ # <<>> THEN SubSeq(@, 1, Len(@) - 1) ELSE @,
                 !.path_stack = IF @ # <<>> THEN SubSeq(@, 1, Len(@) - 1) ELSE @,
                 !.current_text = <<>>]

\* endElement without the len(text_samples) < max_samples test
endElement_NoCap(h, name) ==
    LET local_name == LastPart(name)
        stripped == Strip(h.current_text)
        store == /\ stripped # <<>>
                 /\ local_name \in DOMAIN h.elements
        els == IF store
               THEN [h.elements EXCEPT ![local_name].text_samples =
                        Append(@, Take(stripped, h.max_text_length))]
               ELSE h.elements
    IN [h EXCEPT !.elements = els,
                 !.element_stack = IF @ # <<>> THEN SubSeq(@, 1, Len(@) - 1) ELSE @,
                 !.path_stack = IF @ # <<>> THEN SubSeq(@, 1, Len(@) - 1) ELSE @,
                 !.current_text = <<>>]

\* XMLStreamHandler.endElement
endElement(h, name) ==
    LET local_name == LastPart(name)
        stripped == Strip(h.current_text)
        store == /\ stripped # <<>>
                 /\ local_name \in DOMAIN h.elements
                 /\ Len(h.elements[local_name].text_samples) < h.max_samples
        els == IF store
               THEN [h.elements EXCEPT ![local_name].text_samples =
                        Append(@, Take(stripped, h.max_text_length))]
               ELSE h.elements
    IN [h EXCEPT !.elements = els,
                 !.element_stack = IF @ # <<>> THEN SubSeq(@, 1, Len(@) - 1) ELSE @,
                 !.path_stack = IF @ # <<>> THEN SubSeq(@, 1, Len(@) - 1) ELSE @,
                 !.current_text = <<>>]

\* XMLStreamHandler.characters
characters(h, content) ==
    [h EXCEPT !.current_text = @ \o content,
              !.line_number = @ + CountNewlines(content)]

(***************************************************************************)
(* DocumentTypeDetector                                                    *)
(*                                                                         *)
(* A namespace URI is a sequence of segments; "pattern_ns in actual_ns" is  *)
(* containment of one segment sequence as a contiguous run of the other,   *)
(* with the segments cut where the registered substrings end.               *)
(***************************************************************************)
\* DOCUMENT_PATTERNS in the iteration order of the dict (insertion order)
DOCUMENT_PATTERNS ==
    << [name |-> "SCAP",
        root_elements |-> <<"asset-report-collection", "data-stream-collection">>,
        namespaces |-> << <<"http://scap.nist.gov">>, <<"http://checklists.nist.gov/xccdf">> >>],
       [name |-> "XCCDF",
        root_elements |-> <<"Benchmark">>,
        namespaces |-> << <<"http://checklists.nist.gov/xccdf">> >>],
       [name |-> "OVAL",
        root_elements |-> <<"oval_definitions", "oval_results">>,
        namespaces |-> << <<"http://oval.mitre.org/XMLSchema">> >>],
       [name |-> "SOAP",
        root_elements |-> <<"Envelope">>,
        namespaces |-> << <<"http://schemas.xmlsoap.org/soap">> >>],
       [name |-> "XML_SCHEMA",
        root_elements |-> <<"schema">>,
        namespaces |-> << <<"http://www.w3.org/2001/XMLSchema">> >>],
       [name |-> "RSS",
        root_elements |-> <<"rss", "feed">>,
        namespaces |-> << <<"http://www.w3.org/2005/Atom">> >>],
       [name |-> "SVG",
        root_elements |-> <<"svg">>,
        namespaces |-> << <<"http://www.w3.org/2000/svg">> >>],
       [name |-> "WSDL",
        root_elements |-> <<"definitions">>,
        namespaces |-> << <<"http://schemas.xmlsoap.org/wsdl">> >>] >>

GENERIC_XML == "GENERIC_XML"

AttributeError == "AttributeError"

SeqRange(q) == {q[i] : i \in 1..Len(q)}

\* Python's "sub in s" on strings
IsSubstring(sub, s) ==
    \E i \in 1..(Len(s) - Len(sub) + 1) : SubSeq(s, i, i + Len(sub) - 1) = sub

\* "schema.root_element in patterns['root_elements']"
RootMatches(schema, patterns) == schema.root_element \in SeqRange(patterns.root_elements)

\* the nested loops over patterns['namespaces'] and schema.namespaces.values()
NamespaceMatches(schema, patterns) ==
    \E pattern_ns \in SeqRange(patterns.namespaces) :
        \E prefix \in DOMAIN schema.namespaces :
            IsSubstring(pattern_ns, schema.namespaces[prefix])

\* the loop of detect_type from the i-th registered pattern on
RECURSIVE DetectFrom(_, _)
DetectFrom(i, schema) ==
    IF i > Len(DOCUMENT_PATTERNS) THEN GENERIC_XML
    ELSE IF RootMatches(schema, DOCUMENT_PATTERNS[i])
              \/ NamespaceMatches(schema, DOCUMENT_PATTERNS[i])
         THEN DOCUMENT_PATTERNS[i].name
         ELSE DetectFrom(i + 1, schema)

\* the loop scanning the registered patterns last to first, so that the last
\* matching pattern wins
RECURSIVE DetectLastFrom(_, _)
DetectLastFrom(i, schema) ==
    IF i < 1 THEN GENERIC_XML
    ELSE IF RootMatches(schema, DOCUMENT_PATTERNS[i])
              \/ NamespaceMatches(schema, DOCUMENT_PATTERNS[i])
         THEN DOCUMENT_PATTERNS[i].name
         ELSE DetectLastFrom(i - 1, schema)

\* detection by the root element alone
RECURSIVE DetectRootOnlyFrom(_, _)
DetectRootOnlyFrom(i, schema) ==
    IF i > Len(DOCUMENT_PATTERNS) THEN GENERIC_XML
    ELSE IF RootMatches(schema, DOCUMENT_PATTERNS[i])
         THEN DOCUMENT_PATTERNS[i].name
         ELSE DetectRootOnlyFrom(i + 1, schema)

detect_type_RootOnly(schema) ==
    IF schema.is_none THEN AttributeError ELSE DetectRootOnlyFrom(1, schema)

detect_type_LastWins(schema) ==
    IF schema.is_none THEN AttributeError
    ELSE DetectLastFrom(Len(DOCUMENT_PATTERNS), schema)

\* DocumentTypeDetector.detect_type; with schema = None the first access of
\* schema.root_element raises AttributeError
detect_type(schema) ==
    IF schema.is_none THEN AttributeError ELSE DetectFrom(1, schema)

(***************************************************************************)
(* Documents.  An element is a record [tag, text, children, tail] as        *)
(* ElementTree holds it; the file holds its text with explicit start and   *)
(* end tags, followed by the trailer (whitespace after the root).           *)
(***************************************************************************)
Node(tag, text, children, tail) ==
    [tag |-> tag, text |-> text, children |-> children, tail |-> tail]

OpenTag(tag) == <<"<", tag, ">">>

CloseTag(tag) == <<"<", "/", tag, ">">>

\* a sequence of two or more siblings, split in two to be handled in order
FirstHalf(ns) == SubSeq(ns, 1, Len(ns) \div 2)

SecondHalf(ns) == SubSeq(ns, Len(ns) \div 2 + 1, Len(ns))

\* the text of an element in the file
RECURSIVE SrcText(_)
RECURSIVE SrcTextAll(_)
SrcText(n) ==
    OpenTag(n.tag) \o n.text \o SrcTextAll(n.children) \o CloseTag(n.tag) \o n.tail

SrcTextAll(ns) ==
    IF ns = <<>> THEN <<>>
    ELSE IF Len(ns) = 1 THEN SrcText(ns[1])
    ELSE SrcTextAll(FirstHalf(ns)) \o SrcTextAll(SecondHalf(ns))

\* f.read() of the document file
FileContent(doc) == SrcText(doc.root) \o doc.trailer

\* the (event, elem) pairs ET.iterparse(file_path, events=('start', 'end'))
\* yields; the file is read in one block, so every elem is complete
RECURSIVE IterparseEvents(_)
RECURSIVE IterparseEventsAll(_)
IterparseEvents(n) ==
    <<[event |-> "start", elem |-> n]>> \o IterparseEventsAll(n.children)
        \o <<[event |-> "end", elem |-> n]>>

IterparseEventsAll(ns) ==
    IF ns = <<>> THEN <<>>
    ELSE IF Len(ns) = 1 THEN IterparseEvents(ns[1])
    ELSE IterparseEventsAll(FirstHalf(ns)) \o IterparseEventsAll(SecondHalf(ns))

\* ET.tostring(elem, encoding='unicode'): an element without text and
\* children is written "<tag />"; the tail follows the element
RECURSIVE Tostring(_)
RECURSIVE TostringAll(_)
Tostring(n) ==
    (IF n.text = <<>> /\ n.children = <<>>
     THEN <<"<", n.tag, " ", "/", ">">>
     ELSE OpenTag(n.tag) \o n.text \o TostringAll(n.children) \o CloseTag(n.tag))
    \o n.tail

TostringAll(ns) ==
    IF ns = <<>> THEN <<>>
    ELSE IF Len(ns) = 1 THEN Tostring(ns[1])
    ELSE TostringAll(FirstHalf(ns)) \o TostringAll(SecondHalf(ns))

\* the SAX events of an element, delivered to an XMLStreamHandler
RECURSIVE FeedHandler(_, _)
RECURSIVE FeedHandlerAll(_, _)
FeedHandler(h, n) ==
    LET h1 == startElement(h, <<n.tag>>, [x \in {} |-> <<>>])
        h2 == IF n.text = <<>> THEN h1 ELSE characters(h1, n.text)
        h3 == FeedHandlerAll(h2, n.children)
        h4 == endElement(h3, <<n.tag>>)
    IN IF n.tail = <<>> THEN h4 ELSE characters(h4, n.tail)

\* the comparison has the element table of the first siblings computed in full
\* before the next ones are delivered
FeedHandlerAll(h, ns) ==
    IF ns = <<>> THEN h
    ELSE IF Len(ns) = 1 THEN FeedHandler(h, ns[1])
    ELSE LET h1 == FeedHandlerAll(h, FirstHalf(ns))
         IN IF h1.elements = h1.elements THEN FeedHandlerAll(h1, SecondHalf(ns)) ELSE h1

\* schema.elements of the document: the element table an XMLStreamHandler
\* with the default limits accumulates over it
SchemaElementsOf(doc) == FeedHandler(HandlerInit(5, 200), doc.root).elements

(***************************************************************************)
(* Python string operations                                                *)
(***************************************************************************)
\* an index of a slice, clamped as Python clamps it
SliceIndex(i, n) == IF i < 0 THEN Max2(i + n, 0) ELSE Min2(i, n)

\* s[i:j]
Slice(s, i, j) ==
    LET a == SliceIndex(i, Len(s))
        b == SliceIndex(j, Len(s))
    IN IF a < b THEN SubSeq(s, a + 1, b) ELSE <<>>

\* sub occurs in s at the 0-based offset k
OccursAt(s, sub, k) == k >= 0 /\ k + Len(sub) <= Len(s) /\ SubSeq(s, k + 1, k + Len(sub)) = sub

SetMax(S) == CHOOSE x \in S : \A y \in S : y <= x

SetMin(S) == CHOOSE x \in S : \A y \in S : x <= y

\* s.rfind(sub, start, end)
RFind(s, sub, start, end) ==
    LET a == SliceIndex(start, Len(s))
        b == SliceIndex(end, Len(s))
        hits == {k \in a..(b - Len(sub)) : OccursAt(s, sub, k)}
    IN IF hits = {} THEN -1 ELSE SetMax(hits)

\* s.find(sub, start)
Find(s, sub, start) ==
    LET a == SliceIndex(start, Len(s))
        hits == {k \in a..(Len(s) - Len(sub)) : OccursAt(s, sub, k)}
    IN IF hits = {} THEN -1 ELSE SetMin(hits)

(***************************************************************************)
(* XMLChunker                                                              *)
(***************************************************************************)
RareCountLimit == 100

BranchingLimit == 3

ShallowDepthLimit == 3

MinChunkChars == 1000

\* XMLChunker.__init__
ChunkerInit(max_chunk_size, overlap_size) ==
    [max_chunk_size |-> max_chunk_size, overlap_size |-> overlap_size]

\* major_elements with a tag of exactly 100 occurrences still counted as rare
MajorElements_CountInclusive(elements) ==
    {tag \in DOMAIN elements :
        /\ elements[tag].count <= RareCountLimit
        /\ Cardinality(elements[tag].child_elements) > BranchingLimit
        /\ SetMin(elements[tag].depths) <= ShallowDepthLimit}

\* the major_elements of chunk_by_elements
MajorElements(elements) ==
    {tag \in DOMAIN elements :
        /\ elements[tag].count < RareCountLimit
        /\ Cardinality(elements[tag].child_elements) > BranchingLimit
        /\ SetMin(elements[tag].depths) <= ShallowDepthLimit}

\* DocumentChunk(...) as chunk_by_elements builds it; the chunk id is the md5
\* of the content
ElementChunk(current_chunk, chunk_elements, line_start) ==
    [chunk_id |-> <<"md5", current_chunk>>,
     content |-> current_chunk,
     element_path |-> <<"/">> \o chunk_elements,
     line_range |-> <<line_start, line_start + CountNewlines(current_chunk)>>,
     size_bytes |-> Len(current_chunk),
     elements_contained |-> chunk_elements]

\* the iteration flushing at every major start, whatever the length of the buffer
CbeStep_FlushAlways(r, cs, ev, max_chunk_size, major) ==
    LET tag_name == ev.elem.tag
        boundary == ev.event = "start" /\ tag_name \in major
        flush == boundary /\ r.current_chunk # <<>>
        cs1 == IF flush
               THEN Append(cs, ElementChunk(r.current_chunk, r.chunk_elements, r.line_start))
               ELSE cs
        cur1 == IF flush THEN <<>> ELSE r.current_chunk
        \* line_start += current_chunk.count('\n') runs after current_chunk = ""
        ls1 == IF flush THEN r.line_start + CountNewlines(cur1) ELSE r.line_start
        ce1 == IF flush THEN <<>> ELSE r.chunk_elements
        ce2 == IF boundary THEN Append(ce1, tag_name) ELSE ce1
        cur2 == IF Len(cur1) < max_chunk_size
                THEN cur1 \o (IF ev.event = "end" THEN Tostring(ev.elem) ELSE <<>>)
                ELSE cur1
    IN [run |-> [r EXCEPT !.current_chunk = cur2, !.chunk_elements = ce2,
                          !.line_start = ls1, !.events = Tail(@)],
        chunks |-> cs1]

\* one iteration of "for event, elem in context" of chunk_by_elements
CbeStep(r, cs, ev, max_chunk_size, major) ==
    LET tag_name == ev.elem.tag
        boundary == ev.event = "start" /\ tag_name \in major
        flush == boundary /\ r.current_chunk # <<>>
                     /\ Len(r.current_chunk) > MinChunkChars
        cs1 == IF flush
               THEN Append(cs, ElementChunk(r.current_chunk, r.chunk_elements, r.line_start))
               ELSE cs
        cur1 == IF flush THEN <<>> ELSE r.current_chunk
        \* line_start += current_chunk.count('\n') runs after current_chunk = ""
        ls1 == IF flush THEN r.line_start + CountNewlines(cur1) ELSE r.line_start
        ce1 == IF flush THEN <<>> ELSE r.chunk_elements
        ce2 == IF boundary THEN Append(ce1, tag_name) ELSE ce1
        cur2 == IF Len(cur1) < max_chunk_size
                THEN cur1 \o (IF ev.event = "end" THEN Tostring(ev.elem) ELSE <<>>)
                ELSE cur1
    IN [run |-> [r EXCEPT !.current_chunk = cur2, !.chunk_elements = ce2,
                          !.line_start = ls1, !.events = Tail(@)],
        chunks |-> cs1]

\* DocumentChunk(...) as chunk_by_size builds it
SizeChunk(content, start, end, chunk_num) ==
    [chunk_id |-> <<"chunk", chunk_num>>,
     content |-> Slice(content, start, end),
     element_path |-> <<"size_based">>,
     line_range |-> <<CountNewlines(Slice(content, 0, start)) + 1,
                      CountNewlines(Slice(content, 0, end)) + 1>>,
     size_bytes |-> Len(Slice(content, start, end)),
     elements_contained |-> <<>>]

\* the end of the window of chunk_by_size starting at start
WindowEnd(content, start, max_chunk_size) ==
    LET end0 == Min2(start + max_chunk_size, Len(content))
        last_element_end == RFind(content, <<"<", "/">>, start, end0)
        element_end == Find(content, <<">">>, last_element_end)
    IN IF end0 < Len(content)
            /\ last_element_end > start + (max_chunk_size \div 2)
            /\ element_end # -1
       THEN element_end + 1
       ELSE end0

\* the next window starting where the previous one ended
NextStart_NoOverlap(content, end, overlap_size) == end

\* "start = end - self.overlap_size if end < len(content) else end"
NextStart(content, end, overlap_size) ==
    IF end < Len(content) THEN end - overlap_size ELSE end

(***************************************************************************)
(* XMLAgentFramework.analyze_document                                      *)
(***************************************************************************)
ValueError == "ValueError"

NoneSchema == [is_none |-> TRUE, root_element |-> "", namespaces |-> [x \in {} |-> <<>>]]

\* the events the parser reports for an element: analyze_document turns the
\* feature http://xml.org/sax/features/namespaces on, so element starts and
\* ends are reported through startElementNS / endElementNS
RECURSIVE SaxEvents(_)
RECURSIVE SaxEventsAll(_)
SaxEvents(n) ==
    <<[type |-> "startElementNS", name |-> <<n.tag>>]>>
      \o (IF n.text = <<>> THEN <<>> ELSE <<[type |-> "characters", content |-> n.text]>>)
      \o SaxEventsAll(n.children)
      \o <<[type |-> "endElementNS", name |-> <<n.tag>>]>>
      \o (IF n.tail = <<>> THEN <<>> ELSE <<[type |-> "characters", content |-> n.tail]>>)

SaxEventsAll(ns) ==
    IF ns = <<>> THEN <<>>
    ELSE IF Len(ns) = 1 THEN SaxEvents(ns[1])
    ELSE SaxEventsAll(FirstHalf(ns)) \o SaxEventsAll(SecondHalf(ns))

\* "no structural error" as the position of the error in a file
NoError == -1

SAXParseException == "SAXParseException"

\* the events parser.parse(f) produces for a file holding the document doc,
\* damaged so that the parser meets a structural error after reporting
\* error_at events (NoError: the file is well formed)
ParserEvents(doc, error_at) ==
    IF error_at = NoError THEN SaxEvents(doc.root)
    ELSE SubSeq(SaxEvents(doc.root), 1, error_at) \o <<[type |-> "fatalError"]>>

\* the events a parser without the namespaces feature reports: element starts
\* and ends go to startElement / endElement
PlainEvents(events) ==
    [i \in 1..Len(events) |->
        CASE events[i].type = "startElementNS" ->
                 [type |-> "startElement", name |-> events[i].name]
          [] events[i].type = "endElementNS" ->
                 [type |-> "endElement", name |-> events[i].name]
          [] OTHER -> events[i]]

\* the method of XMLStreamHandler an event reaches: the class defines
\* startElement, endElement and characters and inherits startElementNS and
\* endElementNS, which do nothing, from ContentHandler
HandleEvent(h, ev) ==
    CASE ev.type = "startElement" -> startElement(h, ev.name, [x \in {} |-> <<>>])
      [] ev.type = "endElement" -> endElement(h, ev.name)
      [] ev.type = "characters" -> characters(h, ev.content)
      [] OTHER -> h

\* XMLAgentFramework._build_subtree
RECURSIVE BuildSubtree(_, _)
BuildSubtree(tag, elements) ==
    LET element == ElemOf(elements, tag)
    IN [count |-> element.count,
        namespace |-> element.namespace,
        attributes |-> DOMAIN element.attributes,
        has_text |-> Len(element.text_samples) > 0,
        children |-> [child_tag \in element.child_elements \cap DOMAIN elements |->
                         BuildSubtree(child_tag, elements)]]

\* XMLAgentFramework._build_structure_tree
BuildStructureTree(elements) ==
    [tag \in {t \in DOMAIN elements : elements[t].parent_elements = {}} |->
        BuildSubtree(tag, elements)]

RecursionError == "RecursionError"

\* the child tags _build_subtree descends into: "if child_tag in elements"
ChildrenIn(tag, elements) == elements[tag].child_elements \cap DOMAIN elements

RECURSIVE GrowDescendants(_, _)
GrowDescendants(seen, elements) ==
    LET next == seen \cup UNION {ChildrenIn(t, elements) : t \in seen}
    IN IF next = seen THEN seen ELSE GrowDescendants(next, elements)

\* the tags below tag in the child-tag relation
DescendantTags(tag, elements) == GrowDescendants(ChildrenIn(tag, elements), elements)

\* _build_subtree has no guard: below a tag without parents, a tag that is
\* its own descendant is descended into again and again, until the
\* interpreter's recursion limit ends the call with RecursionError (a chain of
\* distinct tags never gets that deep here)
RecursionEnds(elements) ==
    \A root \in {t \in DOMAIN elements : elements[t].parent_elements = {}} :
        \A t \in {root} \cup DescendantTags(root, elements) :
            t \notin DescendantTags(t, elements)

\* the call self._build_structure_tree(handler.elements)
StructureTreeCall(elements) ==
    IF RecursionEnds(elements)
    THEN [raised |-> None, tree |-> BuildStructureTree(elements)]
    ELSE [raised |-> RecursionError, tree |-> <<>>]

\* nesting levels of a structure tree
RECURSIVE TreeLevels(_)
TreeLevels(tree) ==
    IF DOMAIN tree = {} THEN 0
    ELSE 1 + SetMax({TreeLevels(tree[t].children) : t \in DOMAIN tree})

\* the loop "for tag, element in handler.elements.items()" looking for the
\* first tag without parents; "" if there is none
RECURSIVE FindRootElement(_, _)
FindRootElement(elements, keys) ==
    IF keys = <<>> THEN ""
    ELSE IF elements[Head(keys)].parent_elements = {} THEN Head(keys)
         ELSE FindRootElement(elements, Tail(keys))

RECURSIVE SumCounts(_, _)
SumCounts(elements, keys) ==
    IF keys = <<>> THEN 0 ELSE elements[Head(keys)].count + SumCounts(elements, Tail(keys))

\* analyze_document after parser.parse(f) returned: the structure tree, the
\* root element, the statistics, the schema and its document type.  max() of
\* no depths raises ValueError, detect_type(None) raises AttributeError.
AnalyzeAfterParse(h, doc) ==
    LET structure_tree == BuildStructureTree(h.elements)
        root_element == FindRootElement(h.elements, h.elements_keys)
        with_depths == {t \in DOMAIN h.elements : h.elements[t].depths # {}}
        statistics ==
            [file_size_bytes |-> Len(FileContent(doc)),
             total_elements |-> SumCounts(h.elements, h.elements_keys),
             unique_elements |-> Cardinality(DOMAIN h.elements),
             max_depth |-> SetMax({SetMax(h.elements[t].depths) : t \in with_depths}),
             namespace_count |-> Cardinality(DOMAIN h.namespaces)]
        initial_type == detect_type(NoneSchema)
        constructed ==
            [is_none |-> FALSE,
             document_type |-> initial_type,
             root_element |-> root_element,
             namespaces |-> h.namespaces,
             elements |-> h.elements,
             structure_tree |-> structure_tree,
             statistics |-> statistics,
             specialized_info |-> <<>>]
    IN IF ~RecursionEnds(h.elements)
       THEN [raised |-> RecursionError, constructed |-> NoneSchema, schema |-> NoneSchema]
       ELSE IF with_depths = {}
       THEN [raised |-> ValueError, constructed |-> NoneSchema, schema |-> NoneSchema]
       ELSE IF initial_type = AttributeError
       THEN [raised |-> AttributeError, constructed |-> NoneSchema, schema |-> NoneSchema]
       ELSE [raised |-> None, constructed |-> constructed,
             schema |-> [constructed EXCEPT !.document_type = detect_type(constructed)]]

\* the DocumentSchema of a document as analyze_document assembles it (root
\* element, structure tree, statistics) from the element table startElement
\* and endElement accumulate, with the document type detect_type gives it;
\* elements_keys is the key order of the dict schema.elements
SchemaOf(doc) ==
    LET h == FeedHandler(HandlerInit(5, 200), doc.root)
        base == [is_none |-> FALSE,
                 document_type |-> GENERIC_XML,
                 root_element |-> FindRootElement(h.elements, h.elements_keys),
                 namespaces |-> h.namespaces,
                 elements |-> h.elements,
                 elements_keys |-> h.elements_keys,
                 structure_tree |-> BuildStructureTree(h.elements),
                 statistics |->
                     [file_size_bytes |-> Len(FileContent(doc)),
                      total_elements |-> SumCounts(h.elements, h.elements_keys),
                      unique_elements |-> Cardinality(DOMAIN h.elements),
                      max_depth |-> SetMax({SetMax(h.elements[t].depths) :
                                               t \in DOMAIN h.elements}),
                      namespace_count |-> Cardinality(DOMAIN h.namespaces)],
                 specialized_info |-> <<>>]
    IN [base EXCEPT !.document_type = detect_type(base)]

(***************************************************************************)
(* LLMPromptGenerator and XMLAgentFramework.generate_llm_prompts.  A prompt *)
(* is the record of the values substituted into its template.               *)
(***************************************************************************)
TopElementsLimit == 10

SampleCharsLimit == 50

PromptChunksLimit == 5

PromptContentLimit == 6000

\* sorted(keys, key=count, reverse=True): descending and stable
RECURSIVE InsertByCount(_, _, _)
InsertByCount(sorted, k, elements) ==
    IF sorted = <<>> THEN <<k>>
    ELSE IF elements[Head(sorted)].count >= elements[k].count
         THEN <<Head(sorted)>> \o InsertByCount(Tail(sorted), k, elements)
         ELSE <<k>> \o sorted

RECURSIVE SortedByCount(_, _)
SortedByCount(keys, elements) ==
    IF keys = <<>> THEN <<>>
    ELSE InsertByCount(SortedByCount(SubSeq(keys, 1, Len(keys) - 1), elements),
                       keys[Len(keys)], elements)

\* LLMPromptGenerator.generate_schema_prompt
generate_schema_prompt(schema, file_size) ==
    LET sorted_elements == Take(SortedByCount(schema.elements_keys, schema.elements),
                                TopElementsLimit)
        line(tag) ==
            LET element == schema.elements[tag]
            IN [tag |-> tag,
                count |-> element.count,
                attrs |-> Cardinality(DOMAIN element.attributes),
                children |-> Cardinality(element.child_elements),
                has_text |-> element.text_samples # <<>>,
                sample |-> IF element.text_samples # <<>>
                           THEN Take(element.text_samples[1], SampleCharsLimit)
                           ELSE <<>>]
    IN [document_type |-> detect_type(schema),
        root_element |-> schema.root_element,
        total_elements |-> SumCounts(schema.elements, schema.elements_keys),
        max_depth |-> SetMax({SetMax(schema.elements[t].depths) :
                                 t \in {u \in DOMAIN schema.elements :
                                           schema.elements[u].depths # {}}}),
        file_size |-> file_size,
        namespaces |-> schema.namespaces,
        elements_summary |-> [i \in 1..Len(sorted_elements) |-> line(sorted_elements[i])],
        structure_tree |-> schema.structure_tree]

\* LLMPromptGenerator.generate_chunk_prompt
generate_chunk_prompt(chunk, schema) ==
    [chunk_id |-> chunk.chunk_id,
     element_path |-> chunk.element_path,
     size_bytes |-> chunk.size_bytes,
     line_start |-> chunk.line_range[1],
     line_end |-> chunk.line_range[2],
     elements_contained |-> chunk.elements_contained,
     document_type |-> detect_type(schema),
     root |-> schema.root_element,
     total_elements |-> Cardinality(DOMAIN schema.elements),
     content |-> Take(chunk.content, PromptContentLimit)]

\* generate_llm_prompts that takes the chunks off the list it was given
generate_llm_prompts_Pops(schema, cs, file_size) ==
    LET first == Take(cs, PromptChunksLimit)
    IN [prompts |->
            <<[key |-> <<"schema_analysis">>,
               prompt |-> generate_schema_prompt(schema, file_size)]>>
              \o [i \in 1..Len(first) |->
                     [key |-> <<"chunk", i - 1>>,
                      prompt |-> generate_chunk_prompt(first[i], schema)]],
        schema_after |-> schema,
        chunks_after |-> SubSeq(cs, Len(first) + 1, Len(cs))]

\* XMLAgentFramework.generate_llm_prompts: the dict it returns, in insertion
\* order, and the schema and the chunk list as the call leaves them
generate_llm_prompts(schema, cs, file_size) ==
    LET first == Take(cs, PromptChunksLimit)
    IN [prompts |->
            <<[key |-> <<"schema_analysis">>,
               prompt |-> generate_schema_prompt(schema, file_size)]>>
              \o [i \in 1..Len(first) |->
                     [key |-> <<"chunk", i - 1>>,
                      prompt |-> generate_chunk_prompt(first[i], schema)]],
        schema_after |-> schema,
        chunks_after |-> cs]

\* "handler = XMLStreamHandler(self.max_samples)": the handler of a call is
\* a new object, whatever handler an earlier call (previous) left behind
NewHandler_Reused(previous, max_samples) == previous

NewHandler(previous, max_samples) == HandlerInit(max_samples, 200)

\* a fatal error inside parser.parse(f): the default ErrorHandler raises the
\* SAXParseException and analyze_document has no except clause
ParseFailure_Swallowed(h, doc) == AnalyzeAfterParse(h, doc)

ParseFailure(h, doc) ==
    [raised |-> SAXParseException, constructed |-> NoneSchema, schema |-> NoneSchema]

(***************************************************************************)
(* Specialized handlers: can_handle(root, namespaces).  A document is given *)
(* by the tag of its root (namespace URI and local name, which ElementTree  *)
(* joins as "{uri}local"), the URIs of its namespace map and the elements   *)
(* root.find looks for.  Names and URIs are sequences of segments;          *)
(* str(namespaces.values()) adds only "dict_values([", quotes and commas    *)
(* around the URIs, which no indicator contains.  Confidences are in        *)
(* tenths: 0.5, 0.3 and 0.2 add up exactly in floating point.               *)
(***************************************************************************)
IsSuffix(sub, s) == Len(sub) <= Len(s) /\ SubSeq(s, Len(s) - Len(sub) + 1, Len(s)) = sub

\* str.lower() of a segment
LowerSeg(seg) ==
    CASE seg = "XCCDF" -> "xccdf"
      [] seg = "/POM/4.0.0" -> "/pom/4.0.0"
      [] OTHER -> seg

Lower(s) == [i \in 1..Len(s) |-> LowerSeg(s[i])]

\* "indicator in str(namespaces.values())"
InNamespaceValues(indicator, namespaces) ==
    \E uri \in namespaces : IsSubstring(indicator, uri)

\* "indicator in str(namespaces.values()).lower()"
InLowerNamespaceValues(indicator, namespaces) ==
    \E uri \in namespaces : IsSubstring(indicator, Lower(uri))

\* root.tag == name or root.tag.endswith('}' + name)
TagIs(root, name) == root.local = name

\* SCAPHandler.can_handle
SCAPHandler_can_handle(doc) ==
    LET s1 == IF InNamespaceValues(<<"http://scap.nist.gov/schema/">>, doc.namespaces)
              THEN 5 ELSE 0
        s2 == IF IsSuffix(<<"asset-report-collection">>, doc.root.local) THEN 3 ELSE 0
        s3 == IF InLowerNamespaceValues(<<"xccdf">>, doc.namespaces) THEN 2 ELSE 0
        score == s1 + s2 + s3
    IN [applicable |-> score > 5, confidence |-> score]

\* MavenPOMHandler.can_handle
MavenPOMHandler_can_handle(doc) ==
    IF TagIs(doc.root, <<"project">>)
    THEN IF InNamespaceValues(<<"maven.apache.org">>, doc.namespaces)
         THEN [applicable |-> TRUE, confidence |-> 10]
         ELSE IF doc.has_groupId /\ doc.has_artifactId
              THEN [applicable |-> TRUE, confidence |-> 8]
              ELSE [applicable |-> FALSE, confidence |-> 0]
    ELSE [applicable |-> FALSE, confidence |-> 0]

\* SpringConfigHandler.can_handle
SpringConfigHandler_can_handle(doc) ==
    IF \E ind \in {<<"springframework.org/schema/beans">>,
                    <<"springframework.org/schema/context">>,
                    <<"springframework.org/schema/mvc">>} :
           InNamespaceValues(ind, doc.namespaces)
    THEN [applicable |-> TRUE, confidence |-> 10]
    ELSE IF TagIs(doc.root, <<"beans">>)
         THEN [applicable |-> TRUE, confidence |-> 7]
         ELSE [applicable |-> FALSE, confidence |-> 0]

HandlerNames == {"SCAPHandler", "MavenPOMHandler", "SpringConfigHandler"}

\* handler.can_handle(root, namespaces)
can_handle(name, doc) ==
    CASE name = "SCAPHandler" -> SCAPHandler_can_handle(doc)
      [] name = "MavenPOMHandler" -> MavenPOMHandler_can_handle(doc)
      [] name = "SpringConfigHandler" -> SpringConfigHandler_can_handle(doc)

(***************************************************************************)
(* The handler registry: an ordered collection of handlers; the handler of  *)
(* a document is the applicable one of highest confidence, the first        *)
(* registered among equals, and the generic handler if none applies.        *)
(***************************************************************************)
GenericHandler == "GenericXMLHandler"

NoHandler == "none"

\* a later handler replaces the best so far even at equal confidence
Better_OrEqual(result, best, best_confidence) ==
    result.applicable /\ (best = NoHandler \/ result.confidence >= best_confidence)

\* the probe result of a handler beats the best so far
Better(result, best, best_confidence) ==
    result.applicable /\ (best = NoHandler \/ result.confidence > best_confidence)

\* one handler of the registry is probed
SelectStep(r) ==
    LET name == r.registry[r.i]
        result == can_handle(name, r.doc)
        better == Better(result, r.best, r.best_confidence)
    IN [r EXCEPT !.i = @ + 1,
                 !.best = IF better THEN name ELSE @,
                 !.best_confidence = IF better THEN result.confidence ELSE @]

(***************************************************************************)
(* The handler driven by an arbitrary sequence of SAX events                *)
(***************************************************************************)
MaxSamplesChoices == {1, 2}
MaxTextLengthChoices == {1, 2}

\* attribute lists an element may carry
AttrChoices ==
    { [x \in {} |-> <<>>],
      [x \in {<<"id">>} |-> <<"1">>],
      [x \in {<<"id">>, <<"p", "id">>} |-> IF x = <<"id">> THEN <<"2">> ELSE <<"3">>] }

TextChoices == {<<"x">>, <<"y">>, <<"\n">>, <<" ">>}

Idle == "idle"

\* values of the variables a specification does not use
IdleHandler == HandlerInit(5, 200)

IdleDoc == [root |-> Node("", <<>>, <<>>, <<>>), trailer |-> <<>>]

IdleChunker == ChunkerInit(8000, 200)

IdleRun ==
    [pc |-> Idle, content |-> <<>>, major |-> {}, events |-> <<>>,
     current_chunk |-> <<>>, chunk_elements |-> <<>>, line_start |-> 1,
     start |-> 0, chunk_num |-> 0]

IdleAnalysis ==
    [pc |-> Idle, max_samples |-> 5, events |-> <<>>, outcome |-> <<>>,
     error_at |-> NoError, calls |-> 0]

\* no XMLSchemaAnalyzer constructed
IdleAnalyzer == [pc |-> "idle"]

\* no XMLLLMAgent constructed
IdleAgent == [pc |-> "idle"]

IdleOpen == [open |-> <<>>, ended |-> FALSE]

IdleProbeDoc ==
    [root |-> [ns |-> <<>>, local |-> <<"other">>], namespaces |-> {},
     has_groupId |-> FALSE, has_artifactId |-> FALSE]

IdleSelect ==
    [pc |-> Idle, registry |-> <<>>, doc |-> IdleProbeDoc, i |-> 1,
     best |-> NoHandler, best_confidence |-> 0, chosen |-> NoHandler]

IdleSchema == [is_none |-> FALSE, root_element |-> "", namespaces |-> [x \in {} |-> <<>>]]

HandlerSpecInit ==
    /\ analyzer = IdleAnalyzer
    /\ agent = IdleAgent
    /\ \E ms \in MaxSamplesChoices, ml \in MaxTextLengthChoices :
           handler = HandlerInit(ms, ml)
    /\ nev = 0
    /\ wf = IdleOpen
    /\ dschema = IdleSchema
    /\ dresult = Idle
    /\ arun = IdleAnalysis
    /\ cdoc = IdleDoc
    /\ chunker = IdleChunker
    /\ crun = IdleRun
    /\ chunks = <<>>
    /\ cschema = IdleSchema
    /\ prompts = <<>>
    /\ sel = IdleSelect

StartElementEv ==
    /\ nev < MaxEvents
    /\ Len(handler.element_stack) < MaxDepth
    /\ \E name \in QNames, attrs \in AttrChoices :
           handler' = startElement(handler, name, attrs)
    /\ nev' = nev + 1
    /\ UNCHANGED wf
    /\ UNCHANGED <<dvars, cvars, avars>>

CharactersEv ==
    /\ nev < MaxEvents
    /\ Len(handler.current_text) < MaxTextLen
    /\ \E content \in TextChoices : handler' = characters(handler, content)
    /\ nev' = nev + 1
    /\ UNCHANGED wf
    /\ UNCHANGED <<dvars, cvars, avars>>

EndElementEv ==
    /\ nev < MaxEvents
    /\ \E name \in QNames : handler' = endElement(handler, name)
    /\ nev' = nev + 1
    /\ UNCHANGED wf
    /\ UNCHANGED <<dvars, cvars, avars>>

HandlerNext == StartElementEv \/ CharactersEv \/ EndElementEv

SpecHandler == HandlerSpecInit /\ [][HandlerNext]_vars

(***************************************************************************)
(* C1: relation symmetry.  In every state of XMLStreamHandler reached by    *)
(* any sequence of startElement / characters / endElement events, for all   *)
(* tags A and B: B is in child_elements of A iff A is in parent_elements   *)
(* of B (a tag without an entry has empty sets).                            *)
(***************************************************************************)
ChildTags(h, A) == ElemOf(h.elements, A).child_elements

ParentTags(h, B) == ElemOf(h.elements, B).parent_elements

AllTagsOf(h) ==
    DOMAIN h.elements
      \cup UNION {h.elements[t].child_elements : t \in DOMAIN h.elements}
      \cup UNION {h.elements[t].parent_elements : t \in DOMAIN h.elements}

C1_RelationSymmetry ==
        \A A \in AllTagsOf(handler), B \in AllTagsOf(handler) :
            (B \in ChildTags(handler, A)) <=> (A \in ParentTags(handler, B))

\* a nested element has been started, one tag nested in itself included
C1_Witness ==
    /\ "b" \in ChildTags(handler, "a")
    /\ "a" \in ChildTags(handler, "a")

(***************************************************************************)
(* C11: attribute sample cap.  In every reachable state of XMLStreamHandler *)
(* no attribute's set of sampled values holds more than max_samples         *)
(* entries.                                                                 *)
(***************************************************************************)
C11_AttributeSampleCap ==
    \A t \in DOMAIN handler.elements :
        \A n \in DOMAIN handler.elements[t].attributes :
            Cardinality(handler.elements[t].attributes[n]) <= handler.max_samples

(***************************************************************************)
(* C12: text sample cap.  In every reachable state of XMLStreamHandler each *)
(* tag's text_samples list has at most max_samples entries and every entry  *)
(* has at most max_text_length characters.                                  *)
(***************************************************************************)
C12_TextSampleCap ==
    \A t \in DOMAIN handler.elements :
        LET samples == handler.elements[t].text_samples
        IN /\ Len(samples) <= handler.max_samples
           /\ \A i \in 1..Len(samples) : Len(samples[i]) <= handler.max_text_length

\* a tag seen twice whose list is full and holds a text cut to max_text_length
C12_Witness ==
    /\ "a" \in DOMAIN handler.elements
    /\ handler.elements["a"].count >= 2
    /\ Len(handler.elements["a"].text_samples) = handler.max_samples
    /\ \E i \in 1..Len(handler.elements["a"].text_samples) :
           Len(handler.elements["a"].text_samples[i]) = handler.max_text_length

(***************************************************************************)
(* C22: first-N sampling.  A tag's text_samples list only ever grows by     *)
(* appending: a stored sample is never removed, replaced or reordered by a  *)
(* later event, and once the list holds max_samples entries no later event  *)
(* changes it.                                                              *)
(***************************************************************************)
C22_FirstNSampling ==
    [][\A t \in DOMAIN handler.elements :
          LET before == handler.elements[t].text_samples
              after == handler'.elements[t].text_samples
          IN /\ Len(after) >= Len(before)
             /\ SubSeq(after, 1, Len(before)) = before
             /\ Len(before) >= handler.max_samples => after = before]_vars

\* events came after the list of a tag was full; the text kept is the first
C22_Witness ==
    /\ handler.max_samples = 1
    /\ handler.max_text_length = 2
    /\ "a" \in DOMAIN handler.elements
    /\ handler.elements["a"].text_samples = << <<"x">> >>
    /\ handler.line_number = 2
    /\ nev >= 5

(***************************************************************************)
(* C24: bounded per-tag state.  For every tag the size of each collection   *)
(* the handler keeps for it (paths, line_numbers, attribute samples, text   *)
(* samples) stays within a fixed cap, here max_samples, however often the   *)
(* tag occurs.                                                              *)
(***************************************************************************)
C24_BoundedPerTagState ==
    \A t \in DOMAIN handler.elements :
        LET e == handler.elements[t]
        IN /\ Cardinality(e.paths) <= handler.max_samples
           /\ Len(e.line_numbers) <= handler.max_samples
           /\ Len(e.text_samples) <= handler.max_samples
           /\ \A n \in DOMAIN e.attributes :
                  Cardinality(e.attributes[n]) <= handler.max_samples

(***************************************************************************)
(* detect_type applied to the schemas of a bounded set of documents        *)
(***************************************************************************)
RootChoices ==
    {"asset-report-collection", "data-stream-collection", "Benchmark",
     "oval_definitions", "oval_results", "Envelope", "schema", "rss", "feed",
     "svg", "definitions", "catalog", ""}

\* namespace URIs a document may declare
UriChoices ==
    { <<"http://scap.nist.gov", "/schema/asset-reporting-format/1.1">>,
      <<"http://checklists.nist.gov/xccdf", "/1.2">>,
      <<"http://oval.mitre.org/XMLSchema", "/oval-definitions-5">>,
      <<"http://schemas.xmlsoap.org/soap", "/envelope/">>,
      <<"http://www.w3.org/2001/XMLSchema">>,
      <<"http://www.w3.org/2001/XMLSchema", "-instance">>,
      <<"http://www.w3.org/2005/Atom">>,
      <<"http://www.w3.org/2000/svg">>,
      <<"http://schemas.xmlsoap.org/wsdl", "/">>,
      <<"http://purl.org/dc/elements/1.1/">>,
      <<"urn:example:catalog">> }

\* keys of schema.namespaces: 'default' and declared prefixes
NsPrefixChoices == {"default", "ns1"}

NamespaceMaps ==
    UNION {[ps -> UriChoices] : ps \in SUBSET NsPrefixChoices}

DetectSchemas ==
    {[is_none |-> FALSE, root_element |-> r, namespaces |-> n] :
        r \in RootChoices, n \in NamespaceMaps}

Pending == "pending"

DetectSpecInit ==
    /\ analyzer = IdleAnalyzer
    /\ agent = IdleAgent
    /\ handler = IdleHandler
    /\ nev = 0
    /\ wf = IdleOpen
    /\ dschema \in DetectSchemas
    /\ dresult = Pending
    /\ arun = IdleAnalysis
    /\ cdoc = IdleDoc
    /\ chunker = IdleChunker
    /\ crun = IdleRun
    /\ chunks = <<>>
    /\ cschema = IdleSchema
    /\ prompts = <<>>
    /\ sel = IdleSelect

\* doc_type = DocumentTypeDetector.detect_type(schema)
Detect ==
    /\ dresult = Pending
    /\ dresult' = detect_type(dschema)
    /\ UNCHANGED <<dschema, sel, hvars, cvars, avars>>

DetectNext == Detect

SpecDetect == DetectSpecInit /\ [][DetectNext]_vars

\* the i-th registered pattern matches the schema by its root element, or by a
\* namespace URI containing one of its substrings
C_RootHit(i) ==
    \E k \in 1..Len(DOCUMENT_PATTERNS[i].root_elements) :
        DOCUMENT_PATTERNS[i].root_elements[k] = dschema.root_element

C_NsHit(i) ==
    \E k \in 1..Len(DOCUMENT_PATTERNS[i].namespaces) :
        \E q \in DOMAIN dschema.namespaces :
            IsSubstring(DOCUMENT_PATTERNS[i].namespaces[k], dschema.namespaces[q])

\* how strongly the i-th pattern matches: a root match outweighs a namespace
\* match, which outweighs no match
C_Strength(i) == IF C_RootHit(i) THEN 2 ELSE IF C_NsHit(i) THEN 1 ELSE 0

C_IndexOf(name) ==
    IF \E i \in 1..Len(DOCUMENT_PATTERNS) : DOCUMENT_PATTERNS[i].name = name
    THEN CHOOSE i \in 1..Len(DOCUMENT_PATTERNS) : DOCUMENT_PATTERNS[i].name = name
    ELSE 0

(***************************************************************************)
(* C5: detect_type returns the pattern of highest confidence, a root match  *)
(* weighing more than namespace matches: root element Benchmark with a     *)
(* namespace URI containing the XCCDF substring is detected as XCCDF.       *)
(***************************************************************************)
C5_BenchmarkIsXCCDF ==
    (/\ dresult # Pending
     /\ dschema.root_element = "Benchmark"
     /\ \E q \in DOMAIN dschema.namespaces :
            IsSubstring(<<"http://checklists.nist.gov/xccdf">>, dschema.namespaces[q]))
        => dresult = "XCCDF"

(***************************************************************************)
(* C6: a schema whose root element is rss is detected as RSS, whatever     *)
(* namespaces the document declares.                                       *)
(***************************************************************************)
C6_RssRootIsRSS ==
    (dresult # Pending /\ dschema.root_element = "rss") => dresult = "RSS"

(***************************************************************************)
(* C7: tie-break.  When several registered patterns match the schema        *)
(* equally strongly (and no pattern matches more strongly), the one         *)
(* registered first is returned; a later pattern is returned only if it     *)
(* matches strictly more strongly than every earlier one.                   *)
(***************************************************************************)
C7_TieBreakFirstRegistered ==
    dresult # Pending =>
        LET n == Len(DOCUMENT_PATTERNS)
            r == C_IndexOf(dresult)
            top == {i \in 1..n : C_Strength(i) > 0
                                 /\ \A j \in 1..n : C_Strength(j) <= C_Strength(i)}
        IN /\ Cardinality(top) > 1 => (r \in top /\ \A i \in top : r <= i)
           /\ r > 0 => \A j \in 1..(r - 1) : C_Strength(j) < C_Strength(r)

\* two patterns match by namespace only and the earlier one was returned
C7_Witness ==
    /\ dresult = "SOAP"
    /\ C_Strength(4) = 1
    /\ C_Strength(8) = 1
    /\ \A j \in 1..Len(DOCUMENT_PATTERNS) : C_Strength(j) <= 1

(***************************************************************************)
(* C8: detect_type returns GENERIC_XML if the root element is in no        *)
(* pattern's root_elements and no namespace URI contains any pattern's      *)
(* namespace substring, and only in that case.                              *)
(***************************************************************************)
C8_GenericIffNoMatch ==
    dresult # Pending =>
        ((dresult = GENERIC_XML) <=>
            \A i \in 1..Len(DOCUMENT_PATTERNS) : ~C_RootHit(i) /\ ~C_NsHit(i))

\* an unregistered root with an unregistered namespace has been classified
C8_Witness ==
    /\ dresult = GENERIC_XML
    /\ dschema.root_element = "catalog"
    /\ DOMAIN dschema.namespaces # {}

(***************************************************************************)
(* chunk_document on a bounded set of well-formed documents                *)
(***************************************************************************)
LeafTexts == {<<>>, <<"x", "x">>}

Tails == {<<>>, <<"\n">>}

Leaves(tags) == {Node(t, x, <<>>, tl) : t \in tags, x \in LeafTexts, tl \in Tails}

\* <r> with up to two children <a> or <b>
FlatRoots ==
    {Node("r", x, cs, <<>>) :
        x \in Tails,
        cs \in {<<>>} \cup {<<c>> : c \in Leaves({"a", "b"})}
                  \cup {<<c, d>> : c \in Leaves({"a"}), d \in Leaves({"a", "b"})}}

\* <r><a><b>..</b></a></r>
NestedRoots ==
    {Node("r", <<>>, <<Node("a", <<>>, <<c>>, tl)>>, <<>>) :
        c \in Leaves({"b"}), tl \in Tails}

\* <r> with the four distinct children <a> <b> <c> <d>: r is a major element
MajorRoots ==
    {Node("r", <<>>,
          <<Node("a", xa, <<>>, tl), Node("b", xb, <<>>, tl),
            Node("c", <<>>, <<>>, tl), Node("d", xd, <<>>, tl)>>, <<>>) :
        xa \in LeafTexts, xb \in LeafTexts, xd \in LeafTexts, tl \in Tails}

\* <m> with the four distinct children <a> <b> <c> <d>
MajorChild(xa, tl) ==
    Node("m", <<>>,
         <<Node("a", xa, <<>>, <<>>), Node("b", <<>>, <<>>, <<>>),
           Node("c", <<>>, <<>>, <<>>), Node("d", <<>>, <<>>, <<>>)>>, tl)

LongText == [i \in 1..LongTextLen |-> "x"]

\* <r> with three <m>, the first two with a long or a short text: the buffer
\* of chunk_by_elements passes the 1000 characters of the flush test
BigRoots ==
    {Node("r", <<>>, <<MajorChild(x1, tl), MajorChild(x2, tl), MajorChild(<<>>, tl)>>, <<>>) :
        x1 \in {LongText, <<"x", "x">>}, x2 \in {LongText, <<"x", "x">>}, tl \in Tails}

\* <r> with exactly three distinct children
ThreeChildRoots ==
    {Node("r", <<>>,
          <<Node("a", <<>>, <<>>, <<>>), Node("b", <<>>, <<>>, <<>>),
            Node("c", <<>>, <<>>, <<>>)>>, <<>>)}

\* <m> with four distinct children at depth 3 and at depth 4
DeepRoots ==
    {Node("r", <<>>, <<Node("w", <<>>, <<Node("v", <<>>, <<MajorChild(<<>>, <<>>)>>, <<>>)>>, <<>>)>>, <<>>),
     Node("r", <<>>, <<Node("w", <<>>, <<Node("v", <<>>,
          <<Node("u", <<>>, <<MajorChild(<<>>, <<>>)>>, <<>>)>>, <<>>)>>, <<>>)>>, <<>>)}

\* <r> with n elements <m>, the first with four distinct children
ManyRoot(n) ==
    Node("r", <<>>,
         [i \in 1..n |-> IF i = 1 THEN MajorChild(<<>>, <<>>)
                         ELSE Node("m", <<>>, <<>>, <<>>)], <<>>)

ManyRoots == {ManyRoot(RareCountLimit - 1), ManyRoot(RareCountLimit)}

ChunkDocs ==
    {[root |-> n, trailer |-> tr] :
        n \in FlatRoots \cup NestedRoots \cup MajorRoots, tr \in Tails}
      \cup {[root |-> n, trailer |-> <<>>] :
               n \in BigRoots \cup ThreeChildRoots \cup DeepRoots \cup ManyRoots}

MaxChunkSizeChoices == {1, 2, 3, 5, 8, 8000}

OverlapSizeChoices == {0, 1, 2, 200}

ChunkSpecInit ==
    /\ analyzer = IdleAnalyzer
    /\ agent = IdleAgent
    /\ handler = IdleHandler
    /\ nev = 0
    /\ wf = IdleOpen
    /\ dschema = IdleSchema
    /\ dresult = Idle
    /\ arun = IdleAnalysis
    /\ cdoc \in ChunkDocs
    /\ \E m \in MaxChunkSizeChoices, o \in OverlapSizeChoices :
           chunker = ChunkerInit(m, o)
    /\ crun = [IdleRun EXCEPT !.pc = "call"]
    /\ chunks = <<>>
    /\ cschema = SchemaOf(cdoc)
    /\ prompts = <<>>
    /\ sel = IdleSelect

\* chunk_document -> chunk_by_elements up to the choice of the strategy, with
\* the schema of the document
ChunkDocument ==
    /\ crun.pc = "call"
    /\ LET major == MajorElements(cschema.elements)
       IN crun' = IF major = {}
                  THEN [crun EXCEPT !.pc = "size", !.content = FileContent(cdoc),
                                    !.start = 0, !.chunk_num = 0]
                  ELSE [crun EXCEPT !.pc = "elements", !.major = major,
                                    !.events = IterparseEvents(cdoc.root),
                                    !.current_chunk = <<>>, !.chunk_elements = <<>>,
                                    !.line_start = 1]
    /\ UNCHANGED <<cdoc, chunker, chunks, cschema, prompts, hvars, dvars, avars>>

\* chunk_by_elements: one (event, elem) of the iterparse loop
CbeEvent ==
    /\ crun.pc = "elements"
    /\ crun.events # <<>>
    /\ LET res == CbeStep(crun, chunks, Head(crun.events), chunker.max_chunk_size,
                          crun.major)
       IN /\ crun' = res.run
          /\ chunks' = res.chunks
    /\ UNCHANGED <<cdoc, chunker, cschema, prompts, hvars, dvars, avars>>

\* chunk_by_elements: the final chunk and the return
CbeReturn ==
    /\ crun.pc = "elements"
    /\ crun.events = <<>>
    /\ chunks' = IF crun.current_chunk # <<>>
                 THEN Append(chunks, ElementChunk(crun.current_chunk,
                                                  crun.chunk_elements, crun.line_start))
                 ELSE chunks
    /\ crun' = [crun EXCEPT !.pc = "done_elements"]
    /\ UNCHANGED <<cdoc, chunker, cschema, prompts, hvars, dvars, avars>>

\* chunk_by_size: one iteration of "while start < len(content)"
CbsIteration ==
    /\ crun.pc = "size"
    /\ crun.start < Len(crun.content)
    /\ Len(chunks) < MaxChunks
    /\ LET end == WindowEnd(crun.content, crun.start, chunker.max_chunk_size)
       IN /\ chunks' = Append(chunks, SizeChunk(crun.content, crun.start, end,
                                                crun.chunk_num))
          /\ crun' = [crun EXCEPT
                         !.start = NextStart(crun.content, end, chunker.overlap_size),
                         !.chunk_num = @ + 1]
    /\ UNCHANGED <<cdoc, chunker, cschema, prompts, hvars, dvars, avars>>

\* chunk_by_size: the loop ends and the chunks are returned
CbsReturn ==
    /\ crun.pc = "size"
    /\ ~(crun.start < Len(crun.content))
    /\ crun' = [crun EXCEPT !.pc = "done_size"]
    /\ UNCHANGED <<cdoc, chunker, chunks, cschema, prompts, hvars, dvars, avars>>

ChunkingDone == crun.pc \in {"done_elements", "done_size"}

\* DocumentTypeDetector.detect_type(schema) called by the user of the chunks
DetectOnSchema ==
    /\ ChunkingDone
    /\ dresult = Idle
    /\ dresult' = detect_type(cschema)
    /\ UNCHANGED <<dschema, sel, cvars, hvars, avars>>

\* generate_llm_prompts(schema, chunks, file_path)
GeneratePrompts ==
    /\ ChunkingDone
    /\ prompts = <<>>
    /\ LET res == generate_llm_prompts(cschema, chunks, Len(FileContent(cdoc)))
       IN /\ prompts' = res.prompts
          /\ cschema' = res.schema_after
          /\ chunks' = res.chunks_after
    /\ UNCHANGED <<cdoc, chunker, crun, hvars, dvars, avars>>

ChunkNext ==
    \/ ChunkDocument
    \/ CbeEvent
    \/ CbeReturn
    \/ CbsIteration
    \/ CbsReturn
    \/ DetectOnSchema
    \/ GeneratePrompts

SpecChunk == ChunkSpecInit /\ [][ChunkNext]_vars

RECURSIVE ConcatAll(_)
ConcatAll(ss) == IF ss = <<>> THEN <<>> ELSE Head(ss) \o ConcatAll(Tail(ss))

\* the overlap each chunk after the first declares
C_DeclaredOverlap == IF crun.pc = "done_size" THEN chunker.overlap_size ELSE 0

\* the contents of the chunks, the overlap removed from all but the first
C_Deoverlapped ==
    [i \in 1..Len(chunks) |->
        IF i = 1 THEN chunks[i].content
        ELSE Slice(chunks[i].content, C_DeclaredOverlap, Len(chunks[i].content))]

(***************************************************************************)
(* C2: coverage.  The contents of the chunks chunk_document returns,       *)
(* concatenated in order after removing the overlap from each chunk after   *)
(* the first, are the text of the document, for both strategies.            *)
(***************************************************************************)
C2_Coverage == ChunkingDone => ConcatAll(C_Deoverlapped) = FileContent(cdoc)

\* the offsets (1-based) of "<" and ">" in a chunk content
C_LtAt(s) == {i \in 1..Len(s) : s[i] = "<"}

C_GtAfter(s, i) == {j \in (i + 1)..Len(s) : s[j] = ">"}

\* the content ends inside a tag: its last "<" has no ">" after it
C_EndsInsideTag(s) == C_LtAt(s) # {} /\ C_GtAfter(s, SetMax(C_LtAt(s))) = {}

\* the last tag of the content is complete and is a closing tag "</..>"
C_LastTagCloses(s) ==
    /\ C_LtAt(s) # {}
    /\ C_GtAfter(s, SetMax(C_LtAt(s))) # {}
    /\ SetMax(C_LtAt(s)) < Len(s)
    /\ s[SetMax(C_LtAt(s)) + 1] = "/"

\* the last tag of the content is a complete opening tag "<..>", neither
\* closing nor self-closing: the element it opens is not closed in the chunk
C_EndsWithOpenTag(s) ==
    /\ C_LtAt(s) # {}
    /\ C_GtAfter(s, SetMax(C_LtAt(s))) # {}
    /\ s[SetMax(C_LtAt(s)) + 1] # "/"
    /\ s[SetMin(C_GtAfter(s, SetMax(C_LtAt(s)))) - 1] # "/"

(***************************************************************************)
(* C3: boundary safety.  No chunk returned by chunk_document ends inside a  *)
(* tag or with an unmatched open tag; in chunk_by_size every chunk whose    *)
(* window ends before the end of the text (every chunk but the last) is    *)
(* cut immediately after the ">" of a complete closing tag.                 *)
(***************************************************************************)
C3_BoundarySafety ==
    \A i \in 1..Len(chunks) :
        /\ ~C_EndsInsideTag(chunks[i].content)
        /\ ~C_EndsWithOpenTag(chunks[i].content)
        /\ (crun.pc \in {"size", "done_size"} /\ i < Len(chunks)) =>
              (/\ C_LastTagCloses(chunks[i].content)
               /\ chunks[i].content[Len(chunks[i].content)] = ">")

\* the elements of a document
RECURSIVE C_NodesOf(_)
C_NodesOf(n) == {n} \cup UNION {C_NodesOf(n.children[i]) : i \in 1..Len(n.children)}

\* an element with this tag is by itself larger than max_chunk_size
C_ElementExceeds(tag) ==
    \E n \in C_NodesOf(cdoc.root) :
        n.tag = tag /\ Len(Tostring(n)) > chunker.max_chunk_size

(***************************************************************************)
(* C4: chunk size bound.  Every chunk emitted by chunk_document has        *)
(* size_bytes <= max_chunk_size, except a chunk whose elements_contained is *)
(* a single element that by itself exceeds max_chunk_size.                  *)
(***************************************************************************)
C4_ChunkSizeBound ==
    \A i \in 1..Len(chunks) :
        \/ chunks[i].size_bytes <= chunker.max_chunk_size
        \/ /\ Len(chunks[i].elements_contained) = 1
           /\ C_ElementExceeds(chunks[i].elements_contained[1])

(***************************************************************************)
(* C10: chunking terminates for every configuration with max_chunk_size    *)
(* >= 1: in chunk_by_size the start offset strictly increases on every     *)
(* iteration of the loop.                                                  *)
(***************************************************************************)
C10_StartStrictlyIncreases ==
    [][(crun.pc = "size" /\ crun'.pc = "size") => crun'.start > crun.start]_vars

(***************************************************************************)
(* analyze_document called on one XMLAgentFramework, up to MaxCalls times,  *)
(* on files from a bounded set, well formed or damaged                      *)
(***************************************************************************)
\* positions at which the parser may meet the structural error
ErrorPoints(doc) == {NoError} \cup (0..Len(SaxEvents(doc.root)))

\* the documents of the calls after the first
AgainDocs ==
    {[root |-> Node("r", <<"\n">>, <<Node(t, x, <<>>, <<>>)>>, <<>>), trailer |-> <<>>] :
        t \in {"a", "r"}, x \in LeafTexts}

AnalyzeSpecInit ==
    /\ analyzer = IdleAnalyzer
    /\ agent = IdleAgent
    /\ handler = IdleHandler
    /\ nev = 0
    /\ wf = IdleOpen
    /\ dschema = IdleSchema
    /\ dresult = Idle
    /\ cdoc \in ChunkDocs
    /\ \E ms \in MaxSamplesChoices, e \in ErrorPoints(cdoc) :
           arun = [IdleAnalysis EXCEPT !.pc = "call", !.max_samples = ms,
                                       !.error_at = e, !.calls = 1]
    /\ chunker = IdleChunker
    /\ crun = IdleRun
    /\ chunks = <<>>
    /\ cschema = IdleSchema
    /\ prompts = <<>>
    /\ sel = IdleSelect

\* analyze_document: the parser and a new XMLStreamHandler are created and
\* the file is opened
AnalyzeCall ==
    /\ UNCHANGED <<analyzer, agent>>
    /\ arun.pc = "call"
    /\ handler' = NewHandler(handler, arun.max_samples)
    /\ nev' = 0
    /\ UNCHANGED wf
    /\ arun' = [arun EXCEPT !.pc = "parse",
                            !.events = ParserEvents(cdoc, arun.error_at)]
    /\ UNCHANGED <<dvars, cvars>>

\* parser.parse(f): the next event reaches the handler
AnalyzeParseEvent ==
    /\ UNCHANGED <<analyzer, agent>>
    /\ arun.pc = "parse"
    /\ arun.events # <<>>
    /\ Head(arun.events).type # "fatalError"
    /\ handler' = HandleEvent(handler, Head(arun.events))
    /\ nev' = nev + 1
    /\ UNCHANGED wf
    /\ arun' = [arun EXCEPT !.events = Tail(@)]
    /\ UNCHANGED <<dvars, cvars>>

\* parser.parse(f): the parser meets the structural error
AnalyzeParseError ==
    /\ UNCHANGED <<analyzer, agent>>
    /\ arun.pc = "parse"
    /\ arun.events # <<>>
    /\ Head(arun.events).type = "fatalError"
    /\ arun' = [arun EXCEPT !.pc = "finished", !.events = <<>>,
                            !.outcome = ParseFailure(handler, cdoc)]
    /\ UNCHANGED <<hvars, dvars, cvars>>

\* the rest of analyze_document, up to its return or the exception it raises
AnalyzeFinish ==
    /\ UNCHANGED <<analyzer, agent>>
    /\ arun.pc = "parse"
    /\ arun.events = <<>>
    /\ arun' = [arun EXCEPT !.pc = "finished",
                            !.outcome = AnalyzeAfterParse(handler, cdoc)]
    /\ UNCHANGED <<hvars, dvars, cvars>>

\* the caller passes the next file to the same framework
AnalyzeAgain ==
    /\ UNCHANGED <<analyzer, agent>>
    /\ arun.pc = "finished"
    /\ arun.calls < MaxCalls
    /\ cdoc' \in AgainDocs
    /\ \E e \in {NoError, 2} :
           arun' = [arun EXCEPT !.pc = "call", !.outcome = <<>>,
                                !.error_at = e, !.calls = @ + 1]
    /\ UNCHANGED <<hvars, dvars, chunker, crun, chunks, cschema, prompts>>

AnalyzeNext ==
    \/ AnalyzeCall
    \/ AnalyzeParseEvent
    \/ AnalyzeParseError
    \/ AnalyzeFinish
    \/ AnalyzeAgain

SpecAnalyze == AnalyzeSpecInit /\ [][AnalyzeNext]_vars

(***************************************************************************)
(* C9: for every well-formed document analyze_document completes and       *)
(* returns one DocumentSchema, which is the schema as constructed with only *)
(* document_type set to detect_type(schema).                                *)
(***************************************************************************)
C9_AnalyzeReturnsSchema ==
    (arun.pc = "finished" /\ arun.error_at = NoError) =>
        /\ arun.outcome.raised = None
        /\ ~arun.outcome.schema.is_none
        /\ arun.outcome.schema =
              [arun.outcome.constructed EXCEPT
                  !.document_type = detect_type(arun.outcome.constructed)]

(***************************************************************************)
(* C13: count invariant.  For a well-formed document analyze_document       *)
(* returns a schema whose statistics.total_elements equals the sum of count *)
(* over the entries of schema.elements, and that sum equals the number of   *)
(* element starts the parser reported for the document.                     *)
(***************************************************************************)
RECURSIVE C_ElementStarts(_)
C_ElementStarts(events) ==
    IF events = <<>> THEN 0
    ELSE (IF Head(events).type \in {"startElement", "startElementNS"} THEN 1 ELSE 0)
           + C_ElementStarts(Tail(events))

C13_CountInvariant ==
    (arun.pc = "finished" /\ arun.error_at = NoError) =>
        /\ arun.outcome.raised = None
        /\ LET schema == arun.outcome.schema
               total == SumCounts(schema.elements, handler.elements_keys)
           IN /\ schema.statistics.total_elements = total
              /\ total = C_ElementStarts(ParserEvents(cdoc, NoError))

(***************************************************************************)
(* C14: malformed input.  If the parser reports a structural error while    *)
(* analyze_document is consuming the document, the error propagates to the  *)
(* caller and no DocumentSchema, partial or complete, is returned.          *)
(***************************************************************************)
C14_ParseErrorPropagates ==
    (arun.pc = "finished" /\ arun.error_at # NoError) =>
        /\ arun.outcome.raised = SAXParseException
        /\ arun.outcome.schema.is_none

\* the error came after the handler had received events
C14_Witness ==
    /\ arun.pc = "finished"
    /\ arun.error_at > 1
    /\ nev = arun.error_at
    /\ handler.current_text # <<>>
    /\ arun.outcome.raised = SAXParseException

(***************************************************************************)
(* C16: per-document isolation.  Successive calls of analyze_document on    *)
(* one framework share no accumulator state: during a call the handler      *)
(* holds what a new handler holds after the events of this document alone,  *)
(* and the call ends as the call of a new framework on the document ends,   *)
(* whatever documents were analysed before.                                 *)
(***************************************************************************)
RECURSIVE C_Fold(_, _)
C_Fold(h, events) ==
    IF events = <<>> THEN h
    ELSE IF Head(events).type = "fatalError" THEN h
    ELSE C_Fold(HandleEvent(h, Head(events)), Tail(events))

C_AllEvents == ParserEvents(cdoc, arun.error_at)

C_FreshHandler(events) == C_Fold(HandlerInit(arun.max_samples, 200), events)

C_FreshOutcome ==
    IF arun.error_at = NoError
    THEN AnalyzeAfterParse(C_FreshHandler(C_AllEvents), cdoc)
    ELSE ParseFailure(C_FreshHandler(C_AllEvents), cdoc)

C16_PerDocumentIsolation ==
    /\ arun.pc = "parse" =>
           handler = C_FreshHandler(SubSeq(C_AllEvents, 1,
                                          Len(C_AllEvents) - Len(arun.events)))
    /\ arun.pc = "finished" =>
           /\ handler = C_FreshHandler(C_AllEvents)
           /\ arun.outcome = C_FreshOutcome

\* a second call has ended, after a first call that left text and a line
\* count in its handler
C16_Witness ==
    /\ arun.pc = "finished"
    /\ arun.calls = 2
    /\ handler.line_number = 2
    /\ handler.current_text # <<>>

(***************************************************************************)
(* C17: read-only consumers.  chunk_document, detect_type and               *)
(* generate_llm_prompts leave every field of the DocumentSchema they are    *)
(* given unchanged, and a DocumentChunk is never modified after it was      *)
(* appended to the result list.                                             *)
(***************************************************************************)
C17_ReadOnlyConsumers ==
    [][/\ cschema' = cschema
       /\ Len(chunks') >= Len(chunks)
       /\ \A i \in 1..Len(chunks) : chunks'[i] = chunks[i]]_vars

\* the three consumers have run on a document that gave several chunks
C17_Witness ==
    /\ ChunkingDone
    /\ Len(chunks) >= 2
    /\ dresult = detect_type(cschema)
    /\ Len(prompts) = 1 + Min2(Len(chunks), PromptChunksLimit)

\* the tags of the schema that are rare, branching and shallow
C_MajorTags ==
    {t \in DOMAIN cschema.elements :
        LET e == cschema.elements[t]
        IN /\ e.count < 100
           /\ Cardinality(e.child_elements) > 3
           /\ \E d \in e.depths : d <= 3}

(***************************************************************************)
(* C25: strategy selection.  chunk_by_elements treats a tag as major iff    *)
(* its count is below 100, it has more than 3 distinct child tags and its   *)
(* minimum depth is at most 3; it returns the result of chunk_by_size iff   *)
(* no tag of the schema is major and chunks at element boundaries           *)
(* otherwise.                                                               *)
(***************************************************************************)
C25_StrategySelection ==
    crun.pc # "call" =>
        /\ crun.pc \in {"size", "done_size"} <=> C_MajorTags = {}
        /\ crun.pc \in {"elements", "done_elements"} <=> C_MajorTags # {}
        /\ crun.pc \in {"elements", "done_elements"} => crun.major = C_MajorTags

\* the fallback was taken for a document whose only branching, shallow tag
\* occurs exactly 100 times
C25_Witness ==
    /\ crun.pc = "done_size"
    /\ chunks # <<>>
    /\ \E t \in DOMAIN cschema.elements :
           /\ cschema.elements[t].count = 100
           /\ Cardinality(cschema.elements[t].child_elements) = 4
           /\ 1 \in cschema.elements[t].depths

\* a step of the iterparse loop of chunk_by_elements that emits a chunk
C_EmitsInLoop == crun.pc = "elements" /\ crun'.pc = "elements" /\ chunks' # chunks

\* the return of chunk_by_elements
C_IsCbeReturn == crun.pc = "elements" /\ crun'.pc = "done_elements"

\* what a step of chunk_by_elements may do to the list of chunks
C_FlushStep ==
    /\ C_EmitsInLoop =>
           (/\ Head(crun.events).event = "start"
            /\ Head(crun.events).elem.tag \in C_MajorTags
            /\ Len(crun.current_chunk) > 1000
            /\ Len(chunks') = Len(chunks) + 1
            /\ chunks'[Len(chunks')].content = crun.current_chunk
            /\ SubSeq(chunks', 1, Len(chunks)) = chunks)
    /\ (C_IsCbeReturn /\ crun.current_chunk # <<>>) =>
           (/\ Len(chunks') = Len(chunks) + 1
            /\ chunks'[Len(chunks')].content = crun.current_chunk)
    /\ (C_IsCbeReturn /\ crun.current_chunk = <<>>) => chunks' = chunks

(***************************************************************************)
(* C26: flush rule.  In chunk_by_elements a chunk is emitted before the end *)
(* of the document only at the start event of a major element and only     *)
(* when the buffer is longer than 1000 characters, so every chunk except    *)
(* the last is longer than 1000 characters; a non-empty buffer left at the  *)
(* end is emitted as the final chunk, and the result has at least one       *)
(* chunk.                                                                   *)
(***************************************************************************)
C26_FlushRule ==
    /\ [][C_FlushStep]_vars
    /\ [](crun.pc = "done_elements" =>
             (/\ Len(chunks) >= 1
              /\ chunks[Len(chunks)].content # <<>>
              /\ \A i \in 1..(Len(chunks) - 1) : Len(chunks[i].content) > 1000))

\* chunk_by_elements returned two chunks for a document whose second major
\* element started on a short buffer, which was kept, and whose third started
\* on a long one, which was flushed
C26_Witness ==
    /\ crun.pc = "done_elements"
    /\ Len(chunks) = 2
    /\ Len(cdoc.root.children) = 3
    /\ cdoc.root.children[1].tag \in crun.major
    /\ Len(SrcText(cdoc.root.children[1])) <= 1000

(***************************************************************************)
(* C27: line ranges of element-based chunks.  Each chunk of                 *)
(* chunk_by_elements has the inclusive (start, end) line pair of its        *)
(* content, and after a flush the start line of the next chunk is advanced  *)
(* by the number of newlines of the flushed content: line_range[0] of chunk *)
(* k+1 equals line_range[1] of chunk k.                                     *)
(***************************************************************************)
C27_LineRanges ==
    crun.pc = "done_elements" =>
        /\ \A i \in 1..Len(chunks) :
               chunks[i].line_range[2] =
                   chunks[i].line_range[1] + CountNewlines(chunks[i].content)
        /\ \A i \in 1..(Len(chunks) - 1) :
               chunks[i + 1].line_range[1] = chunks[i].line_range[2]

\* the offset in the text at which chunk k starts if every chunk after the
\* first starts overlap_size characters before the end of the previous one
RECURSIVE C_StartOf(_)
C_StartOf(k) ==
    IF k = 1 THEN 0
    ELSE C_StartOf(k - 1) + Len(chunks[k - 1].content) - chunker.overlap_size

\* the last n characters of s
C_LastChars(s, n) == SubSeq(s, Len(s) - n + 1, Len(s))

(***************************************************************************)
(* C28: fixed overlap.  In chunk_by_size with overlap_size <=               *)
(* max_chunk_size // 2 the first chunk starts at offset 0, the last chunk   *)
(* ends at the end of the text, and every chunk after the first begins with *)
(* exactly the last overlap_size characters of the previous chunk (start of *)
(* chunk k+1 = end of chunk k - overlap_size).                              *)
(***************************************************************************)
C28_FixedOverlap ==
    (crun.pc = "done_size" /\ chunker.overlap_size <= chunker.max_chunk_size \div 2) =>
        LET content == FileContent(cdoc)
            n == Len(chunks)
        IN /\ n >= 1
           /\ \A k \in 1..n :
                  chunks[k].content =
                      Slice(content, C_StartOf(k), C_StartOf(k) + Len(chunks[k].content))
           /\ C_StartOf(n) + Len(chunks[n].content) = Len(content)
           /\ \A k \in 1..(n - 1) :
                  /\ Len(chunks[k].content) >= chunker.overlap_size
                  /\ Len(chunks[k + 1].content) > chunker.overlap_size
                  /\ SubSeq(chunks[k + 1].content, 1, chunker.overlap_size) =
                         C_LastChars(chunks[k].content, chunker.overlap_size)

\* chunk_by_size returned at least three windows with an overlap of two
\* characters
C28_Witness ==
    /\ crun.pc = "done_size"
    /\ chunker.overlap_size = 2
    /\ chunker.overlap_size <= chunker.max_chunk_size \div 2
    /\ Len(chunks) >= 3

(***************************************************************************)
(* The registry choosing the handler of a document: every registration      *)
(* order of the handlers, documents from a bounded set                      *)
(***************************************************************************)
ProbeUris ==
    { <<"http://", "maven.apache.org", "/POM/4.0.0">>,
      <<"http://scap.nist.gov/schema/", "asset-reporting-format/1.1">>,
      <<"http://checklists.nist.gov/", "xccdf", "/1.2">>,
      <<"http://example.org/", "XCCDF">>,
      <<"http://www.", "springframework.org/schema/beans">> }

ProbeLocalNames ==
    { <<"project">>, <<"beans">>, <<"asset-report-collection">>,
      <<"x-", "asset-report-collection">>, <<"other">> }

ProbeDocs ==
    {[root |-> [ns |-> ns, local |-> l], namespaces |-> U,
      has_groupId |-> g, has_artifactId |-> g] :
        ns \in {<<>>, <<"http://example.org/">>}, l \in ProbeLocalNames,
        U \in SUBSET ProbeUris, g \in BOOLEAN}

Registries ==
    {q \in [1..Cardinality(HandlerNames) -> HandlerNames] :
        \A i, j \in DOMAIN q : q[i] = q[j] => i = j}

SelectSpecInit ==
    /\ analyzer = IdleAnalyzer
    /\ agent = IdleAgent
    /\ handler = IdleHandler
    /\ nev = 0
    /\ wf = IdleOpen
    /\ dschema = IdleSchema
    /\ dresult = Idle
    /\ \E q \in Registries, d \in ProbeDocs :
           sel = [IdleSelect EXCEPT !.pc = "probe", !.registry = q, !.doc = d]
    /\ arun = IdleAnalysis
    /\ cdoc = IdleDoc
    /\ chunker = IdleChunker
    /\ crun = IdleRun
    /\ chunks = <<>>
    /\ cschema = IdleSchema
    /\ prompts = <<>>

\* the next registered handler is asked whether it can handle the document
SelectProbe ==
    /\ sel.pc = "probe"
    /\ sel.i <= Len(sel.registry)
    /\ sel' = SelectStep(sel)
    /\ UNCHANGED <<dschema, dresult, hvars, cvars, avars>>

\* all handlers were asked: the best one, or the generic handler
SelectReturn ==
    /\ sel.pc = "probe"
    /\ sel.i > Len(sel.registry)
    /\ sel' = [sel EXCEPT !.pc = "selected",
                          !.chosen = IF sel.best = NoHandler THEN GenericHandler
                                     ELSE sel.best]
    /\ UNCHANGED <<dschema, dresult, hvars, cvars, avars>>

SelectNext == SelectProbe \/ SelectReturn

SpecSelect == SelectSpecInit /\ [][SelectNext]_vars

(***************************************************************************)
(* C18: handler selection.  Given the (applicable, confidence) results of   *)
(* can_handle for all registered handlers, the handler chosen is one with   *)
(* applicable = true and the highest confidence among the applicable ones,  *)
(* and among equal confidences the one registered first.                    *)
(***************************************************************************)
C_Result(i) == can_handle(sel.registry[i], sel.doc)

C_Applicable == {i \in 1..Len(sel.registry) : C_Result(i).applicable}

C18_HandlerSelection ==
    (sel.pc = "selected" /\ C_Applicable # {}) =>
        \E i \in C_Applicable :
            /\ sel.chosen = sel.registry[i]
            /\ \A j \in C_Applicable :
                   /\ C_Result(j).confidence <= C_Result(i).confidence
                   /\ C_Result(j).confidence = C_Result(i).confidence => i <= j

\* two applicable handlers of equal, highest confidence and a third,
\* registered first, of lower confidence or not applicable
C18_Witness ==
    /\ sel.pc = "selected"
    /\ sel.chosen = sel.registry[2]
    /\ {2, 3} \subseteq C_Applicable
    /\ C_Result(3).confidence = C_Result(2).confidence

(***************************************************************************)
(* The element table of a well-formed document, accumulated by an           *)
(* XMLStreamHandler that receives the startElement / endElement events of   *)
(* the document, and then the structure tree and the root element as        *)
(* analyze_document computes them from the table (lines 461-469)            *)
(***************************************************************************)
TreeTags == {"r", "a", "b", "c"}

TreeLeaves == {Node(t, <<>>, <<>>, <<>>) : t \in TreeTags}

TreeInner ==
    {Node(t, <<>>, cs, <<>>) :
        t \in TreeTags, cs \in {<<>>} \cup {<<c>> : c \in TreeLeaves}}

TreeRoots ==
    {Node(t, <<>>, cs, <<>>) :
        t \in TreeTags,
        cs \in {<<>>} \cup {<<c>> : c \in TreeInner}
                  \cup {<<c, d>> : c \in TreeInner, d \in TreeInner}}

TreeDocs == {[root |-> n, trailer |-> <<>>] : n \in TreeRoots}

IdleBuild == [raised |-> None, root_element |-> "", structure_tree |-> <<>>, max_depth |-> 0]

BuildSpecInit ==
    /\ analyzer = IdleAnalyzer
    /\ agent = IdleAgent
    /\ handler = HandlerInit(5, 200)
    /\ nev = 0
    /\ wf = IdleOpen
    /\ dschema = IdleSchema
    /\ dresult = Idle
    /\ sel = IdleSelect
    /\ cdoc \in TreeDocs
    /\ arun = [IdleAnalysis EXCEPT !.pc = "feed",
                                   !.events = PlainEvents(SaxEvents(cdoc.root)),
                                   !.outcome = IdleBuild]
    /\ chunker = IdleChunker
    /\ crun = IdleRun
    /\ chunks = <<>>
    /\ cschema = IdleSchema
    /\ prompts = <<>>

\* the next event of the document reaches the handler
BuildFeedEvent ==
    /\ UNCHANGED <<analyzer, agent>>
    /\ arun.pc = "feed"
    /\ arun.events # <<>>
    /\ handler' = HandleEvent(handler, Head(arun.events))
    /\ nev' = nev + 1
    /\ UNCHANGED wf
    /\ arun' = [arun EXCEPT !.events = Tail(@)]
    /\ UNCHANGED <<dvars, cvars>>

\* structure_tree = self._build_structure_tree(handler.elements) and the
\* search for the root element
BuildTree ==
    /\ UNCHANGED <<analyzer, agent>>
    /\ arun.pc = "feed"
    /\ arun.events = <<>>
    /\ LET call == StructureTreeCall(handler.elements)
       IN arun' = [arun EXCEPT
                      !.pc = "built",
                      !.outcome =
                          [raised |-> call.raised,
                           root_element |->
                               IF call.raised = None
                               THEN FindRootElement(handler.elements, handler.elements_keys)
                               ELSE "",
                           structure_tree |-> call.tree,
                           max_depth |-> SetMax({SetMax(handler.elements[t].depths) :
                                                    t \in DOMAIN handler.elements})]]
    /\ UNCHANGED <<hvars, dvars, cvars>>

BuildNext == BuildFeedEvent \/ BuildTree

SpecBuild == BuildSpecInit /\ [][BuildNext]_vars

(***************************************************************************)
(* C19: root element.  For every well-formed document, whatever tag names   *)
(* occur nested inside it, root_element is the local name of the            *)
(* document's outermost element and structure_tree has exactly that one     *)
(* top-level key.                                                           *)
(***************************************************************************)
C19_RootElement ==
    (arun.pc = "built" /\ arun.outcome.raised = None) =>
        /\ arun.outcome.root_element = cdoc.root.tag
        /\ DOMAIN arun.outcome.structure_tree = {cdoc.root.tag}

(***************************************************************************)
(* C20: structure tree termination.  For every element table accumulated    *)
(* from a well-formed document the build of the structure tree ends with a  *)
(* tree nested no deeper than max_depth + 1; if a tag is its own descendant *)
(* in the child-tag relation, the build ends with a build error.            *)
(***************************************************************************)
\* the build comes to a tag that is its own descendant
C_MeetsOwnDescendant == ~RecursionEnds(handler.elements)

C20_TreeTermination ==
    arun.pc = "built" =>
        IF C_MeetsOwnDescendant
        THEN arun.outcome.raised # None
        ELSE /\ arun.outcome.raised = None
             /\ TreeLevels(arun.outcome.structure_tree) <= arun.outcome.max_depth + 1

(***************************************************************************)
(* The handler driven by the events of a well-formed document: one root,    *)
(* every endElement names the innermost open element, characters only       *)
(* inside the root                                                          *)
(***************************************************************************)
WfSpecInit ==
    /\ analyzer = IdleAnalyzer
    /\ agent = IdleAgent
    /\ \E ms \in MaxSamplesChoices, ml \in MaxTextLengthChoices :
           handler = HandlerInit(ms, ml)
    /\ nev = 0
    /\ wf = IdleOpen
    /\ dschema = IdleSchema
    /\ dresult = Idle
    /\ sel = IdleSelect
    /\ arun = IdleAnalysis
    /\ cdoc = IdleDoc
    /\ chunker = IdleChunker
    /\ crun = IdleRun
    /\ chunks = <<>>
    /\ cschema = IdleSchema
    /\ prompts = <<>>

WfStartElement ==
    /\ nev < MaxEvents
    /\ ~wf.ended
    /\ wf.open = <<>> => nev = 0
    /\ Len(wf.open) < MaxDepth
    /\ \E name \in QNames, attrs \in AttrChoices :
           /\ handler' = startElement(handler, name, attrs)
           /\ wf' = [wf EXCEPT !.open = Append(@, [name |-> name, text |-> <<>>])]
    /\ nev' = nev + 1
    /\ UNCHANGED <<dvars, cvars, avars>>

WfCharacters ==
    /\ nev < MaxEvents
    /\ wf.open # <<>>
    /\ Len(handler.current_text) < MaxTextLen
    /\ \E content \in TextChoices :
           /\ handler' = characters(handler, content)
           /\ wf' = [wf EXCEPT !.open[Len(wf.open)].text = @ \o content]
    /\ nev' = nev + 1
    /\ UNCHANGED <<dvars, cvars, avars>>

WfEndElement ==
    /\ nev < MaxEvents
    /\ wf.open # <<>>
    /\ handler' = endElement(handler, wf.open[Len(wf.open)].name)
    /\ wf' = [wf EXCEPT !.open = SubSeq(@, 1, Len(@) - 1),
                        !.ended = Len(wf.open) = 1]
    /\ nev' = nev + 1
    /\ UNCHANGED <<dvars, cvars, avars>>

WfNext == WfStartElement \/ WfCharacters \/ WfEndElement

SpecWellFormed == WfSpecInit /\ [][WfNext]_vars

\* this step is the endElement of the innermost open element
C_IsEndStep == wf.open # <<>> /\ Len(wf'.open) = Len(wf.open) - 1

\* this step is a startElement
C_IsStartStep == Len(wf'.open) = Len(wf.open) + 1

(***************************************************************************)
(* C21: per-element text.  At the endElement event of an element E the text *)
(* considered for sampling is the concatenation of all characters events    *)
(* delivered while E was the innermost open element, also when E has child  *)
(* elements; the sample is stored iff that text is non-blank and the tag of *)
(* E has fewer than max_samples samples.                                    *)
(***************************************************************************)
C21_PerElementText ==
    [][C_IsEndStep =>
         LET E == wf.open[Len(wf.open)]
             tag == LastPart(E.name)
             own == Strip(E.text)
             before == handler.elements[tag].text_samples
             after == handler'.elements[tag].text_samples
         IN after = IF own # <<>> /\ Len(before) < handler.max_samples
                    THEN Append(before, Take(own, handler.max_text_length))
                    ELSE before]_vars

(***************************************************************************)
(* C23: depth tracking.  On well-formed input element_stack and path_stack  *)
(* hold exactly the local names of the currently open elements, outermost   *)
(* first; the depth recorded at startElement is the number of open          *)
(* ancestors (0 for the root), and both stacks are empty after the          *)
(* endElement of the root.                                                  *)
(***************************************************************************)
C_OpenLocalNames == [i \in 1..Len(wf.open) |-> LastPart(wf.open[i].name)]

C_StacksMatch ==
    /\ handler.element_stack = C_OpenLocalNames
    /\ handler.path_stack = C_OpenLocalNames

C23_DepthTracking ==
    [][/\ C_StacksMatch'
       /\ C_IsStartStep =>
              LET tag == LastPart(wf'.open[Len(wf'.open)].name)
              IN handler'.elements[tag].depths =
                     ElemOf(handler.elements, tag).depths \cup {Len(wf.open)}
       /\ wf'.ended =>
              handler'.element_stack = <<>> /\ handler'.path_stack = <<>>]_vars

\* the root was closed after a nested element with a prefixed name
C23_Witness ==
    /\ wf.ended
    /\ handler.element_stack = <<>>
    /\ "b" \in DOMAIN handler.elements
    /\ handler.elements["b"].depths = {1}
    /\ handler.elements["b"].namespace = "p"

(***************************************************************************)
(* XMLSchemaAnalyzer (xml_schema_analyzer.py)                              *)
(***************************************************************************)
\* "if depth <= 3 and len(self.sample_paths) < 20"
SamplePathDepth == 3

SamplePathsLimit == 20

\* "text_patterns=info.text_patterns[:3]"
ReturnedTextPatterns == 3

\* the default factory of self.elements
NewElementInfo ==
    [tag |-> "", count |-> 0, depth_levels |-> {}, attributes |-> [x \in {} |-> {}],
     text_patterns |-> <<>>, parent_elements |-> {}, child_elements |-> {}]

\* XMLSchemaAnalyzer.__init__
XMLSchemaAnalyzerInit(max_samples, max_text_length) ==
    [max_samples |-> max_samples,
     max_text_length |-> max_text_length,
     elements |-> [x \in {} |-> NewElementInfo],
     namespaces |-> [x \in {} |-> ""],
     structure_tree |-> [x \in {} |-> <<>>],
     sample_paths |-> <<>>,
     max_depth |-> 0]

\* XMLSchemaAnalyzer.analyze_element; parent_tag None is "", a path is the
\* sequence of its tags.  clean_tag removes the namespace of elem.tag, and
\* the namespace loop over elem.attrib finds nothing, the parser keeping the
\* xmlns declarations out of the attributes.
RECURSIVE analyze_element(_, _, _, _, _)
RECURSIVE analyze_children(_, _, _, _, _)
analyze_element(self, elem, depth, parent_tag, path) ==
    LET clean_tag == elem.tag
        full_path == path \o <<clean_tag>>
        info == IF clean_tag \in DOMAIN self.elements
                THEN self.elements[clean_tag] ELSE NewElementInfo
        stripped == Strip(elem.text)
        info1 == [info EXCEPT
                     !.tag = clean_tag,
                     !.count = @ + 1,
                     !.depth_levels = @ \cup {depth},
                     !.parent_elements = IF parent_tag # "" THEN @ \cup {parent_tag} ELSE @,
                     !.text_patterns =
                         IF stripped # <<>> /\ Len(@) < self.max_samples
                         THEN Append(@, Take(stripped, self.max_text_length))
                         ELSE @]
        els1 == Put(self.elements, clean_tag, info1)
        els2 == IF parent_tag # ""
                THEN [els1 EXCEPT ![parent_tag].child_elements = @ \cup {clean_tag}]
                ELSE els1
        self1 == [self EXCEPT
                     !.max_depth = Max2(@, depth),
                     !.elements = els2,
                     !.sample_paths =
                         IF depth <= SamplePathDepth /\ Len(@) < SamplePathsLimit
                         THEN Append(@, full_path) ELSE @]
    IN analyze_children(self1, elem.children, depth + 1, clean_tag, full_path)

\* "for child in elem: self.analyze_element(child, depth + 1, clean_tag, full_path)"
analyze_children(self, children, depth, parent_tag, path) ==
    IF children = <<>> THEN self
    ELSE analyze_children(analyze_element(self, Head(children), depth, parent_tag, path),
                          Tail(children), depth, parent_tag, path)

\* XMLSchemaAnalyzer._build_subtree
RECURSIVE build_subtree(_, _)
build_subtree(tag, elements) ==
    LET info == elements[tag]
    IN [count |-> info.count,
        attributes |-> [k \in DOMAIN info.attributes |-> Cardinality(info.attributes[k])],
        has_text |-> Len(info.text_patterns) > 0,
        children |-> [child_tag \in info.child_elements |->
                         build_subtree(child_tag, elements)]]

\* XMLSchemaAnalyzer.build_structure_tree
build_structure_tree(elements) ==
    [tag \in {t \in DOMAIN elements : elements[t].parent_elements = {}} |->
        build_subtree(tag, elements)]

\* "sum(info.count for info in self.elements.values())"
RECURSIVE SumOfCounts(_, _)
SumOfCounts(elements, tags) ==
    IF tags = {} THEN 0
    ELSE LET t == CHOOSE x \in tags : TRUE
         IN elements[t].count + SumOfCounts(elements, tags \ {t})

\* XMLSchemaAnalyzer.analyze_file on a file with the root element file.root
\* and the default namespace file.xmlns declared on it ("" for none): the
\* start-ns event of the declaration comes before the start event of the
\* root, at which the loop analyses the whole element and breaks.
\* _build_subtree has no guard and ends with RecursionError on a tag that is
\* its own descendant.
analyze_file(self, file) ==
    LET self1 == IF file.xmlns # ""
                 THEN [self EXCEPT !.namespaces = Put(@, "default", file.xmlns)]
                 ELSE self
        self2 == analyze_element(self1, file.root, 0, "", <<>>)
    IN IF ~RecursionEnds(self2.elements)
       THEN [self |-> self2, raised |-> RecursionError, schema |-> None]
       ELSE LET self3 == [self2 EXCEPT
                             !.structure_tree = build_structure_tree(self2.elements)]
            IN [self |-> self3,
                raised |-> None,
                schema |->
                    [root_element |-> file.root.tag,
                     namespaces |-> self3.namespaces,
                     elements |->
                         [t \in DOMAIN self3.elements |->
                             [self3.elements[t] EXCEPT
                                 !.text_patterns = Take(@, ReturnedTextPatterns)]],
                     max_depth |-> self3.max_depth,
                     total_elements |->
                         SumOfCounts(self3.elements, DOMAIN self3.elements),
                     structure_tree |-> self3.structure_tree,
                     sample_paths |-> self3.sample_paths]]

(***************************************************************************)
(* One XMLSchemaAnalyzer analysing up to MaxCalls files                     *)
(***************************************************************************)
XsaLeaves == {Node("a", x, <<>>, <<>>) : x \in {<<>>, <<"x">>}}

\* <r> with up to two <a>, with <a><b/></a> or with <b><a/></b>
XsaRoots ==
    {Node("r", <<>>, cs, <<>>) :
        cs \in {<<>>} \cup {<<c>> : c \in XsaLeaves}
                  \cup {<<c, d>> : c \in XsaLeaves, d \in XsaLeaves}
                  \cup {<<Node("a", <<>>, <<Node("b", <<>>, <<>>, <<>>)>>, <<>>)>>,
                        <<Node("b", <<>>, <<Node("a", <<>>, <<>>, <<>>)>>, <<>>)>>}}

XsaFiles == {[root |-> n, xmlns |-> u] : n \in XsaRoots, u \in {"", "u"}}

XsaSpecInit ==
    /\ analyzer = IdleAnalyzer
    /\ agent = IdleAgent
    /\ handler = IdleHandler
    /\ nev = 0
    /\ wf = IdleOpen
    /\ dschema = IdleSchema
    /\ dresult = Idle
    /\ sel = IdleSelect
    /\ arun = IdleAnalysis
    /\ cdoc = IdleDoc
    /\ chunker = IdleChunker
    /\ crun = IdleRun
    /\ chunks = <<>>
    /\ cschema = IdleSchema
    /\ prompts = <<>>

\* analyzer = XMLSchemaAnalyzer(max_samples, max_text_length)
XsaNew ==
    /\ analyzer.pc = "idle"
    /\ \E ms \in MaxSamplesChoices, ml \in MaxTextLengthChoices :
           analyzer' = [pc |-> "ready", self |-> XMLSchemaAnalyzerInit(ms, ml),
                        calls |-> 0, file |-> None, schema |-> None]
    /\ UNCHANGED <<arun, agent, hvars, dvars, cvars>>

\* analyzer.analyze_file(file_path), the whole call
XsaAnalyzeFile ==
    /\ analyzer.pc \in {"ready", "returned", "raised"}
    /\ analyzer.calls < MaxCalls
    /\ \E file \in XsaFiles :
           LET call == analyze_file(analyzer.self, file)
           IN analyzer' = [pc |-> IF call.raised = None THEN "returned" ELSE "raised",
                           self |-> call.self,
                           calls |-> analyzer.calls + 1,
                           file |-> file,
                           schema |-> call.schema]
    /\ UNCHANGED <<arun, agent, hvars, dvars, cvars>>

XsaNext == XsaNew \/ XsaAnalyzeFile

SpecSchemaAnalyzer == XsaSpecInit /\ [][XsaNext]_vars

\* the number of elements with the tag in an element and below it
RECURSIVE C_CountTag(_, _)
RECURSIVE C_CountTagAll(_, _)
C_CountTag(n, tag) == (IF n.tag = tag THEN 1 ELSE 0) + C_CountTagAll(n.children, tag)

C_CountTagAll(ns, tag) ==
    IF ns = <<>> THEN 0 ELSE C_CountTag(Head(ns), tag) + C_CountTagAll(Tail(ns), tag)

\* the tags of an element and of the elements below it
RECURSIVE C_TagsOf(_)
C_TagsOf(n) == {n.tag} \cup UNION {C_TagsOf(n.children[i]) : i \in 1..Len(n.children)}

\* the (parent tag, child tag) pairs of an element and below it
RECURSIVE C_ParentChild(_)
C_ParentChild(n) ==
    {<<n.tag, n.children[i].tag>> : i \in 1..Len(n.children)}
        \cup UNION {C_ParentChild(n.children[i]) : i \in 1..Len(n.children)}

\* the depth of the deepest element below an element at the given depth
RECURSIVE C_DepthOf(_, _)
C_DepthOf(n, depth) ==
    SetMax({depth} \cup {C_DepthOf(n.children[i], depth + 1) : i \in 1..Len(n.children)})

(***************************************************************************)
(* C29: analyze_file returns a schema whose element counts, parent/child    *)
(* sets, namespaces, max_depth, sample_paths and total_elements describe    *)
(* only the file passed to that call, also when the same XMLSchemaAnalyzer  *)
(* has already analysed another file.                                       *)
(***************************************************************************)
C29_AnalyzeFileIsolation ==
    analyzer.pc = "returned" =>
        LET schema == analyzer.schema
            root == analyzer.file.root
        IN /\ DOMAIN schema.elements = C_TagsOf(root)
           /\ \A t \in DOMAIN schema.elements :
                  /\ schema.elements[t].count = C_CountTag(root, t)
                  /\ schema.elements[t].child_elements =
                         {c \in C_TagsOf(root) : <<t, c>> \in C_ParentChild(root)}
                  /\ schema.elements[t].parent_elements =
                         {q \in C_TagsOf(root) : <<q, t>> \in C_ParentChild(root)}
           /\ schema.total_elements = SumOfCounts(schema.elements, C_TagsOf(root))
           /\ schema.max_depth = C_DepthOf(root, 0)
           /\ Len(schema.sample_paths) = schema.total_elements
           /\ DOMAIN schema.namespaces =
                  (IF analyzer.file.xmlns = "" THEN {} ELSE {"default"})

(***************************************************************************)
(* XMLLLMAgent (agent_integration.py).  Costs are in millionths of a       *)
(* dollar, so that the rates per 1000 tokens are whole numbers per token.  *)
(***************************************************************************)
\* cost_per_1k_tokens: 0.03 and 0.06 dollars for OPENAI, 0.0 for LOCAL
OpenAIInputRate == 30

OpenAIOutputRate == 60

\* "len(prompt) // 4", "len(response) // 4"
CharsPerToken == 4

RuntimeError == "RuntimeError"

ProviderError == "ProviderError"

\* XMLLLMAgent.__init__; cache holds the files of cache_dir, requests counts
\* the requests handed to the provider's client
XMLLLMAgentInit(provider, max_parallel, cache_enabled, cost_limit) ==
    [provider |-> provider,
     max_parallel |-> max_parallel,
     cache_enabled |-> cache_enabled,
     cost_limit |-> cost_limit,
     total_cost |-> 0,
     prompts_sent |-> 0,
     tokens_used |-> 0,
     cache_hits |-> 0,
     errors |-> 0,
     cache |-> [x \in {} |-> None],
     requests |-> 0]

\* XMLLLMAgent._estimate_cost
estimate_cost(provider, prompt, response) ==
    LET input_tokens == Len(prompt) \div CharsPerToken
        output_tokens == Len(response) \div CharsPerToken
    IN IF provider = "openai"
       THEN input_tokens * OpenAIInputRate + output_tokens * OpenAIOutputRate
       ELSE 0

\* XMLLLMAgent._get_cached_response: the pickled response, None without one
get_cached_response(self, prompt) ==
    IF self.cache_enabled /\ prompt \in DOMAIN self.cache
    THEN [self |-> [self EXCEPT !.cache_hits = @ + 1], hit |-> TRUE,
          response |-> self.cache[prompt]]
    ELSE [self |-> self, hit |-> FALSE, response |-> None]

\* the provider call of _call_llm and what follows it: the statistics, the
\* cost and the cache updated on a reply, the error counted on an exception
provider_call(self, prompt, prompt_id, reply) ==
    IF ~reply.ok
    THEN [self |-> [self EXCEPT !.requests = @ + 1, !.errors = @ + 1],
          raised |-> ProviderError, response |-> None]
    ELSE LET tokens_used ==
                 IF self.provider = "local"
                 THEN Len(prompt) \div CharsPerToken
                          + Len(reply.content) \div CharsPerToken
                 ELSE reply.total_tokens
             llm_response ==
                 [prompt_id |-> prompt_id,
                  content |-> reply.content,
                  tokens_used |-> tokens_used,
                  cost_estimate |-> estimate_cost(self.provider, prompt, reply.content)]
         IN [self |-> [self EXCEPT
                          !.requests = @ + 1,
                          !.prompts_sent = @ + 1,
                          !.tokens_used = @ + tokens_used,
                          !.total_cost = @ + llm_response.cost_estimate,
                          !.cache = IF self.cache_enabled
                                    THEN Put(@, prompt, llm_response) ELSE @],
             raised |-> None, response |-> llm_response]

\* _call_llm without the test of the cost limit
call_llm_NoCostCheck(self, prompt, prompt_id, reply) ==
    LET cached == get_cached_response(self, prompt)
    IN IF cached.hit
       THEN [self |-> cached.self, raised |-> None, response |-> cached.response]
       ELSE provider_call(self, prompt, prompt_id, reply)

\* XMLLLMAgent._call_llm.  The coroutine has no await: once started it runs
\* to its return or raise without another task running in between.  reply is
\* what the provider does with the request: an exception, or the content and
\* the token count it reports.
call_llm(self, prompt, prompt_id, reply) ==
    LET cached == get_cached_response(self, prompt)
    IN IF cached.hit
       THEN [self |-> cached.self, raised |-> None, response |-> cached.response]
       ELSE IF self.total_cost >= self.cost_limit
       THEN [self |-> self, raised |-> RuntimeError, response |-> None]
       ELSE provider_call(self, prompt, prompt_id, reply)

(***************************************************************************)
(* process_document on one XMLLLMAgent: the schema call, then the chunk     *)
(* tasks of asyncio.gather in every order of their steps                    *)
(***************************************************************************)
ProviderChoices == {"openai", "local"}

MaxParallelChoices == {1, 2}

CostLimitChoices == {100, 200}

\* a prompt of 4 and a prompt of 8 characters
PromptChoices == {<<"p", "p", "p", "p">>, <<"q", "q", "q", "q", "q", "q", "q", "q">>}

\* what the provider answers: an exception, or a content of 4 or 8 characters
\* with the token count it reports
ReplyChoices ==
    {[ok |-> FALSE, content |-> <<>>, total_tokens |-> 0]}
      \cup {[ok |-> TRUE, content |-> c, total_tokens |-> 3] :
               c \in {<<"c", "c", "c", "c">>, <<"d", "d", "d", "d", "d", "d", "d", "d">>}}

\* the chunk prompts of a document, in the order of the dict
ChunkPromptLists == UNION {[1..n -> PromptChoices] : n \in 0..MaxTasks}

AgentSpecInit ==
    /\ analyzer = IdleAnalyzer
    /\ agent = IdleAgent
    /\ handler = IdleHandler
    /\ nev = 0
    /\ wf = IdleOpen
    /\ dschema = IdleSchema
    /\ dresult = Idle
    /\ sel = IdleSelect
    /\ arun = IdleAnalysis
    /\ cdoc = IdleDoc
    /\ chunker = IdleChunker
    /\ crun = IdleRun
    /\ chunks = <<>>
    /\ cschema = IdleSchema
    /\ prompts = <<>>

\* agent = XMLLLMAgent(provider, model, api_key, max_parallel, cache_enabled, cost_limit)
AgentNew ==
    /\ agent.pc = "idle"
    /\ \E pr \in ProviderChoices, mp \in MaxParallelChoices, ce \in BOOLEAN,
          cl \in CostLimitChoices :
           agent' = [pc |-> "ready", self |-> XMLLLMAgentInit(pr, mp, ce, cl),
                     calls |-> 0, schema_prompt |-> <<>>, chunk_prompts |-> <<>>,
                     tasks |-> <<>>, semaphore |-> 0, raised |-> None]
    /\ UNCHANGED <<arun, analyzer, hvars, dvars, cvars>>

\* process_document up to the prompts of generate_llm_prompts (steps 1 to 3)
ProcessDocument ==
    /\ agent.pc = "ready"
    /\ agent.calls < MaxDocuments
    /\ \E sp \in PromptChoices, cps \in ChunkPromptLists :
           agent' = [agent EXCEPT !.pc = "schema", !.calls = @ + 1,
                                  !.schema_prompt = sp, !.chunk_prompts = cps,
                                  !.tasks = <<>>, !.raised = None]
    /\ UNCHANGED <<arun, analyzer, hvars, dvars, cvars>>

\* step 4, "schema_response = await self._call_llm(...)", and the creation
\* of the semaphore and of the chunk tasks; an exception ends process_document
ProcessSchemaCall ==
    /\ agent.pc = "schema"
    /\ \E reply \in ReplyChoices :
           LET call == call_llm(agent.self, agent.schema_prompt, "schema_analysis", reply)
           IN agent' =
                  IF call.raised # None
                  THEN [agent EXCEPT !.pc = "raised", !.self = call.self,
                                     !.raised = call.raised]
                  ELSE [agent EXCEPT
                           !.pc = "chunks", !.self = call.self,
                           !.semaphore = agent.self.max_parallel,
                           !.tasks = [i \in 1..Len(agent.chunk_prompts) |->
                                         [pc |-> "created",
                                          prompt |-> agent.chunk_prompts[i],
                                          raised |-> None, response |-> None]]]
    /\ UNCHANGED <<arun, analyzer, hvars, dvars, cvars>>

\* process_chunk: "async with chunk_semaphore" entered
TaskAcquire ==
    /\ agent.pc = "chunks"
    /\ agent.semaphore > 0
    /\ \E i \in 1..Len(agent.tasks) :
           /\ agent.tasks[i].pc = "created"
           /\ agent' = [agent EXCEPT !.semaphore = @ - 1, !.tasks[i].pc = "holding"]
    /\ UNCHANGED <<arun, analyzer, hvars, dvars, cvars>>

\* process_chunk: "await self._call_llm(prompt_content, prompt_id)"
TaskCall ==
    /\ agent.pc = "chunks"
    /\ \E i \in 1..Len(agent.tasks), reply \in ReplyChoices :
           /\ agent.tasks[i].pc = "holding"
           /\ LET call == call_llm(agent.self, agent.tasks[i].prompt, "chunk", reply)
              IN agent' = [agent EXCEPT !.self = call.self,
                                        !.tasks[i].pc = "called",
                                        !.tasks[i].raised = call.raised,
                                        !.tasks[i].response = call.response]
    /\ UNCHANGED <<arun, analyzer, hvars, dvars, cvars>>

\* process_chunk: the semaphore released, the task returns or raises
TaskRelease ==
    /\ agent.pc = "chunks"
    /\ \E i \in 1..Len(agent.tasks) :
           /\ agent.tasks[i].pc = "called"
           /\ agent' = [agent EXCEPT !.semaphore = @ + 1, !.tasks[i].pc = "done"]
    /\ UNCHANGED <<arun, analyzer, hvars, dvars, cvars>>

\* "await asyncio.gather(*tasks, return_exceptions=True)" returns and
\* process_document builds its result; the agent can take another document
ProcessReturn ==
    /\ agent.pc = "chunks"
    /\ \A i \in 1..Len(agent.tasks) : agent.tasks[i].pc = "done"
    /\ agent' = [agent EXCEPT !.pc = "ready", !.schema_prompt = <<>>,
                              !.chunk_prompts = <<>>, !.tasks = <<>>, !.semaphore = 0]
    /\ UNCHANGED <<arun, analyzer, hvars, dvars, cvars>>

\* process_document raised; the agent can take another document
ProcessRaise ==
    /\ agent.pc = "raised"
    /\ agent' = [agent EXCEPT !.pc = "ready", !.schema_prompt = <<>>,
                              !.chunk_prompts = <<>>, !.raised = None]
    /\ UNCHANGED <<arun, analyzer, hvars, dvars, cvars>>

AgentNext ==
    \/ AgentNew
    \/ ProcessDocument
    \/ ProcessSchemaCall
    \/ TaskAcquire
    \/ TaskCall
    \/ TaskRelease
    \/ ProcessReturn
    \/ ProcessRaise

SpecAgent == AgentSpecInit /\ [][AgentNext]_vars

\* the prompt has a response in the cache of the agent
C_Cached(prompt) == agent.self.cache_enabled /\ prompt \in DOMAIN agent.self.cache

\* the step is the _call_llm of chunk task i
C_TaskCalls(i) ==
    /\ agent.pc = "chunks"
    /\ agent'.pc = "chunks"
    /\ i \in 1..Len(agent.tasks)
    /\ agent.tasks[i].pc = "holding"
    /\ agent'.tasks[i].pc = "called"

\* the step is the _call_llm of the schema prompt
C_SchemaCalls == agent.pc = "schema" /\ agent'.pc \in {"chunks", "raised"}

\* the step sends nothing to the provider and spends nothing
C_NothingSpent ==
    /\ agent'.self.requests = agent.self.requests
    /\ agent'.self.total_cost = agent.self.total_cost
    /\ agent'.self.prompts_sent = agent.self.prompts_sent
    /\ agent'.self.tokens_used = agent.self.tokens_used

\* the step sends one request, allowed by the limit and not answerable from
\* the cache, and adds at most the cost of that one call
C_OneCallSpent(prompt) ==
    /\ agent'.self.requests = agent.self.requests + 1
    /\ agent.self.total_cost < agent.self.cost_limit
    /\ ~C_Cached(prompt)
    /\ agent'.self.total_cost >= agent.self.total_cost
    /\ agent'.self.total_cost <=
           agent.self.total_cost
               + SetMax({estimate_cost(agent.self.provider, prompt, r.content) :
                            r \in ReplyChoices})

\* what one _call_llm step may do, given its prompt and the exception it
\* ended with (None for a return)
C_CallRule(prompt, raised) ==
    /\ (agent.self.total_cost >= agent.self.cost_limit /\ ~C_Cached(prompt)) =>
           (raised = RuntimeError /\ C_NothingSpent)
    /\ C_Cached(prompt) => (raised = None /\ C_NothingSpent)
    /\ C_NothingSpent \/ C_OneCallSpent(prompt)

\* every step of the agent: calls follow the rule, a cached prompt gets the
\* cached response, other steps spend nothing
C_AgentStep ==
    /\ C_SchemaCalls => C_CallRule(agent.schema_prompt, agent'.raised)
    /\ \A i \in 1..MaxTasks :
           C_TaskCalls(i) =>
               /\ C_CallRule(agent.tasks[i].prompt, agent'.tasks[i].raised)
               /\ C_Cached(agent.tasks[i].prompt) =>
                      agent'.tasks[i].response = agent.self.cache[agent.tasks[i].prompt]
    /\ (agent.pc # "idle" /\ ~C_SchemaCalls /\ \A i \in 1..MaxTasks : ~C_TaskCalls(i)) =>
           C_NothingSpent

\* the largest cost of one call
C_MaxCallCost ==
    SetMax({estimate_cost(pr, p, r.content) :
               pr \in ProviderChoices, p \in PromptChoices, r \in ReplyChoices})

(***************************************************************************)
(* C30: cost limit.  In any interleaving of the chunk tasks started by      *)
(* process_document, _call_llm sends no provider request when total_cost    *)
(* >= cost_limit and the prompt is not cached; such a call raises and       *)
(* leaves total_cost, prompts_sent and tokens_used unchanged, so total_cost *)
(* exceeds cost_limit by at most the cost of one call; a cached prompt is   *)
(* answered without changing total_cost or prompts_sent.                    *)
(***************************************************************************)
C30_CostLimit ==
    /\ [][C_AgentStep]_vars
    /\ [](agent.pc # "idle" =>
             agent.self.total_cost < agent.self.cost_limit + C_MaxCallCost)

\* with total_cost over the limit, one chunk task was answered from the
\* cache and another, with a prompt that is not cached, was refused
C30_Witness ==
    /\ agent.pc = "chunks"
    /\ agent.self.total_cost > agent.self.cost_limit
    /\ \E i, j \in 1..Len(agent.tasks) :
           /\ agent.tasks[i].pc \in {"called", "done"}
           /\ agent.tasks[i].raised = RuntimeError
           /\ agent.tasks[j].pc \in {"called", "done"}
           /\ agent.tasks[j].raised = None
           /\ agent.tasks[j].prompt = agent.schema_prompt
    /\ agent.self.cache_hits = 1
    /\ agent.self.requests = 1

====
